---- MODULE Spec2Model ----
(***************************************************************************)
(* Realtime core of the webinar backend: the signaling Hub with its Redis  *)
(* pub/sub bridge, the SFU rooms, the recording tap, the stream-session    *)
(* peak tracking and the upload job queue.  Each subsystem has its own     *)
(* specification over the shared variables; the variables of the other     *)
(* subsystems stay at their initial values.                                *)
(***************************************************************************)
EXTENDS Integers, Sequences, FiniteSets, TLC

\* ------------------------------------------------------------------ bounds
MaxClients == 3      \* connections (fresh uuid each) per behaviour
MaxMsgs    == 2      \* chat messages published per behaviour
QueueCap   == 2      \* capacity of Client.send (256 in ServeWs), scaled down

Clients   == 1..MaxClients
Instances == {"I1", "I2"}
Rooms     == {"R1", "R2"}
MsgIds    == 1..MaxMsgs

NoRoom == [has |-> FALSE, m |-> {}]     \* no entry in h.webinars
NoSub  == 0          \* no entry in h.subs
NoLoc  == [inst |-> "none", room |-> "none"]

MaxPCs     == 3      \* peer connections created per behaviour
MaxTracks  == 1      \* remote tracks per publisher peer connection
MaxSubscribes == 1   \* webrtc_subscribe messages handled per connection
MaxOffers  == 2      \* webrtc_publisher_offer messages handled per connection
MaxPkts    == 2      \* RTP packets read per remote track
MaxRecs    == 2      \* recorder sessions created per behaviour
Requests   == {"A", "B"}     \* concurrent start / stop HTTP requests
NoToken    == [alg |-> "", sigOk |-> FALSE, expired |-> FALSE]     \* token=""
GoodToken  == [alg |-> "HS256", sigOk |-> TRUE, expired |-> FALSE]
Tokens     == {NoToken, GoodToken,
               [GoodToken EXCEPT !.expired = TRUE],     \* valid signature, past exp
               [GoodToken EXCEPT !.sigOk = FALSE],      \* signed with another key
               [GoodToken EXCEPT !.alg = "none"]}       \* not an HMAC method
NoResp     == [status |-> 0, body |-> "", wid |-> "", tok |-> NoToken]
NoPC       == 0
NoClient   == 0
MaxRows    == 2      \* rows of the recordings table
\* the RecordingReadyPayload: recording_id is 0 when empty, -1 when not a UUID,
\* else the id of a row that may or may not exist
Bodies     == [provider : {"", "p1"}, recording : {0, -1, 1}, webinar : {"", "not-a-uuid", "R1"},
               url : {"", "u1", "u2"}]
Failures   == {"none", "create", "update", "push"}    \* the call that returns an error
NoPayload  == [rec |-> 0, url |-> ""]
NoHookResp == [code |-> 0, rec |-> 0, url |-> "", job |-> 0, provider |-> "", recording |-> 0]
\* what one run of Service.StartRecording meets: both loopback ports bound, the SDP
\* file written, ffmpeg started, both UDP connections dialled
AllFine    == [bound |-> TRUE, sdp |-> TRUE, ffmpeg |-> TRUE, dial |-> TRUE]
Envs       == {AllFine, [AllFine EXCEPT !.bound = FALSE], [AllFine EXCEPT !.sdp = FALSE],
               [AllFine EXCEPT !.ffmpeg = FALSE], [AllFine EXCEPT !.dial = FALSE]}
NoRow      == [status |-> "none", env |-> AllFine, tracks |-> FALSE]
NoSession  == 0
SfuInst    == "I1"   \* the server instance whose SFU is modelled
SfuRoom    == "R1"   \* the webinar whose sfuRoom is modelled
WebinarIds == {"", "not-a-uuid", SfuRoom}     \* the webinar_id query parameter

MaxJobs    == 2      \* upload jobs enqueued per behaviour
MaxRetries == 3      \* queue.MaxRetries
JobIds     == 1..MaxJobs
Workers    == {"server", "worker"}      \* cmd/server and cmd/worker each run a processor
NoJob      == [id |-> 0, attempt |-> 0]

VARIABLES
  \* ---- Hub (one per server instance) and its clients
  cstate,        \* client -> "new" | "registered" | "gone" (ServeWs / readPump cleanup)
  cloc,          \* client -> [inst, room] it connected to
  webinars,      \* Hub.webinars: inst -> room -> [has: key present, m: the inner map's client ids]
  subs,          \* Hub.subs: inst -> room -> NoSub or id of the subscription whose cancel is held
  pubsubs,       \* every subscription goroutine started by SubscribeWebinar, by id
  send,          \* Client.send: buffered channel of messages
  sent,          \* history: chat messages handed to PublishToWebinarOnly
  enq,           \* history: client -> msg -> number of times it was enqueued on Client.send
  openFailed     \* history: inst -> room -> the SubscribeWebinar of the current room entry failed

hubVars == <<cstate, cloc, webinars, subs, pubsubs, send, sent, enq, openFailed>>

VARIABLES
  \* ---- upload job queue (Redis lists) and the workers running RecordingProcessor.Run
  recordingsQ,   \* list worker:recordings
  dlq,           \* list worker:dlq
  wjob,          \* worker -> the job it dequeued and is processing, or NoJob
  jenq,          \* history: job -> EnqueueRecordingUpload was called for it
  jprocs,        \* history: job -> number of times Process was run on it
  jfails,        \* history: job -> number of times Process returned an error
  jdone          \* history: job -> Process returned nil

queueVars == <<recordingsQ, dlq, wjob, jenq, jprocs, jfails, jdone>>

VARIABLES
  \* ---- stream_sessions table and the audience-change callbacks of instance I1
  sessions,      \* rows of stream_sessions in started_at order: [webinar, peak]
  cb,            \* client goroutine -> the onAudience callback it is running
  maxCount       \* history: room -> highest count passed to the callback

streamVars == <<sessions, cb, maxCount>>

VARIABLES
  \* ---- SFU: the sfuRoom of one webinar, its peer connections and client goroutines
  roomExists,    \* SFU.rooms has the webinar's key
  publisher,     \* sfuRoom.publisher: NoPC or the id of a peer connection
  tracks,        \* sfuRoom.tracks: ids of relayTrack objects, in append order
  subscribers,   \* sfuRoom.subscribers: client -> NoPC or the id of its subscriber pc
  recordingSink, \* sfuRoom.recordingSink: NoSession or the id of a recording session
  pcs,           \* every webrtc.PeerConnection created, by id
  relays,        \* every relayTrack created, by id
  tpc,           \* client -> where its readPump goroutine is
  tseen,         \* client -> r.publisher as its goroutine saw it under the room lock
  nsub           \* client -> webrtc_subscribe messages its readPump has handled

sfuVars == <<roomExists, publisher, tracks, subscribers, recordingSink, pcs, relays, tpc, tseen,
             nsub>>

VARIABLES
  \* ---- recorder.Service and the operators' start / stop requests
  svcSessions,   \* Service.sessions[webinarID]: NoSession or the id of a Session
  recSessions,   \* every recorder.Session created, by id
  rop,           \* request -> where its handler goroutine is
  rsess          \* request -> the Session its handler works on

recVars == <<svcSessions, recSessions, rop, rsess>>

VARIABLES
  \* ---- ServeWs
  resp           \* the answer to the last WebSocket handshake, with the request it answers

wsVars == <<resp>>

VARIABLES
  \* ---- the Hub's RedisPublisher
  redis          \* "nil": none configured; "up"; "down": PublishWebinarEvent returns an error

busVars == <<redis>>

VARIABLES
  \* ---- the two mutexes of a subscribe
  roomMu,        \* sfuRoom.mu: the client whose goroutine holds it, or NoClient
  hubMu,         \* Hub.mu: the clients whose goroutines hold it for reading
  lpc            \* client -> where its read loop is inside HandleSubscribe

lockVars == <<roomMu, hubMu, lpc>>

VARIABLES
  \* ---- the recordings table, as far as start requests write it
  recRow         \* request -> the Recording Record its start created, with what the start met

rowVars == <<recRow>>

VARIABLES
  \* ---- readPump, case "webrtc_publisher_offer"
  noffer         \* client -> number of publisher offers its read loop has handed to the SFU

offerVars == <<noffer>>

VARIABLES
  \* ---- the recording-ready webhook
  recs,          \* the recordings table as the webhook sees it: rows by id
  jobRec,        \* upload job -> the RecordingUploadPayload it carries
  hookResp       \* the answer to the last webhook, with what it resolved

hookVars == <<recs, jobRec, hookResp>>

VARIABLES
  \* ---- one subscription of SubscribeWebinar and the channel it listens on
  wire,          \* every body published on the channel webinar:{id}, in publish order
  msgCh,         \* pubsub.Channel(): indices into wire received and not yet taken by the loop
  loopPc,        \* the goroutine: "select" | "handler" | "closed"
  loopCur,       \* index of the envelope the goroutine decoded and is about to hand over
  ctxDone,       \* cancelCtx() has been called
  calls          \* history: the handler invocations, [k: index into wire, event]

envVars == <<wire, msgCh, loopPc, loopCur, ctxDone, calls>>

VARIABLES
  \* ---- the write loop of each connection
  wpump          \* client -> "run" | "exit": writePump has returned and closed the socket

pumpVars == <<wpump>>

VARIABLES
  \* ---- calls of BroadcastToWebinar, one client at a time
  bcast,         \* goroutine -> its call: [pc, msg, room, start, seen]
  ncast,         \* number of calls begun
  acc,           \* history: client -> the messages its send channel accepted, in order
  out            \* history: client -> the messages writePump took from the channel, in order

castVars == <<bcast, ncast, acc, out>>

VARIABLES
  \* ---- the mutex of each relayTrack
  relayMu        \* relay -> "free" | "loop": rt.mu is held by the forwarding goroutine

rtVars == <<relayMu>>

VARIABLES
  \* ---- goroutines seen only through the mutexes they take
  thProg,        \* goroutine -> the operation it runs, or "none"
  thPc           \* goroutine -> index of its next lock or unlock call

thVars == <<thProg, thPc>>

VARIABLES
  \* ---- the UDP sockets of the recording sessions, as the kernel sees them
  udpClosed,     \* sessions whose connections StopRecording has closed
  udpBad,        \* sessions with a WriteToUDP on a closed connection
  udpLate        \* sessions whose sink ran WriteRTP after the connections were closed

udpVars == <<udpClosed, udpBad, udpLate>>

vars ==
  <<hubVars, queueVars, streamVars, sfuVars, recVars, wsVars, busVars, lockVars, rowVars,
    offerVars, hookVars, envVars, pumpVars, castVars, rtVars, thVars, udpVars>>

\* variables the Hub actions leave alone
notHub == <<queueVars, streamVars, sfuVars, recVars, wsVars, busVars, lockVars, rowVars,
  offerVars, hookVars, envVars, pumpVars, castVars, rtVars, thVars, udpVars>>
\* variables the queue actions leave alone
notQueue == <<hubVars, streamVars, sfuVars, recVars, wsVars, busVars, lockVars, rowVars,
  offerVars, hookVars, envVars, pumpVars, castVars, rtVars, thVars, udpVars>>
\* variables the Hub with the audience-change handler installed leaves alone
notStream == <<queueVars, sfuVars, recVars, wsVars, busVars, lockVars, rowVars,
  offerVars, hookVars, envVars, pumpVars, castVars, rtVars, thVars, udpVars>>
\* variables the SFU, its clients and the recorder leave alone
notSfu == <<queueVars, streamVars, wsVars, busVars, lockVars, rowVars, offerVars, hookVars, envVars, pumpVars, castVars, rtVars, thVars, udpVars>>
\* variables a WebSocket handshake leaves alone
notWs == <<queueVars, streamVars, sfuVars, recVars, busVars, lockVars, rowVars,
  offerVars, hookVars, envVars, pumpVars, castVars, rtVars, thVars, udpVars>>
\* variables a change of the Redis connection leaves alone
notBus == <<hubVars, queueVars, streamVars, sfuVars, recVars, wsVars, lockVars, rowVars,
  offerVars, hookVars, envVars, pumpVars, castVars, rtVars, thVars, udpVars>>
\* variables a step of the SFU that takes or releases a mutex leaves alone
notSfuLocks == <<queueVars, streamVars, wsVars, busVars, rowVars, offerVars, hookVars, envVars, pumpVars, castVars, rtVars, thVars, udpVars>>
\* variables a start request that writes its Recording Record leaves alone
notSfuRows == <<queueVars, streamVars, wsVars, busVars, lockVars, offerVars, hookVars, envVars, pumpVars, castVars, rtVars, thVars, udpVars>>
\* variables a publisher offer counted by the read loop leaves alone
notSfuOffers == <<queueVars, streamVars, wsVars, busVars, lockVars, rowVars, hookVars, envVars, pumpVars, castVars, rtVars, thVars, udpVars>>
\* variables the webhook and the upload workers leave alone
notHook == <<hubVars, streamVars, sfuVars, recVars, wsVars, busVars, lockVars, rowVars,
  offerVars, envVars, pumpVars, castVars, rtVars, thVars, udpVars>>
\* variables the subscription goroutine and the writers of its channel leave alone
notEnv == <<hubVars, queueVars, streamVars, sfuVars, recVars, wsVars, busVars, lockVars, rowVars,
  offerVars, hookVars, pumpVars, castVars, rtVars, thVars, udpVars>>
\* variables a step of the SFU that ends a write loop leaves alone
notSfuPump == <<queueVars, streamVars, wsVars, busVars, lockVars, rowVars, offerVars, hookVars,
  envVars, castVars, rtVars, thVars, udpVars>>
\* variables a step of a broadcast that is followed client by client leaves alone
notHubCast == <<queueVars, streamVars, sfuVars, recVars, wsVars, busVars, lockVars, rowVars,
  offerVars, hookVars, envVars, pumpVars, rtVars, thVars, udpVars>>
\* variables a step of the forwarding loop that takes or releases rt.mu leaves alone
notSfuRt == <<queueVars, streamVars, wsVars, busVars, lockVars, rowVars, offerVars, hookVars,
  envVars, pumpVars, castVars, thVars, udpVars>>
\* variables a recorder call that touches the sockets leaves alone
notSfuUdp == <<queueVars, streamVars, wsVars, busVars, lockVars, rowVars, offerVars, hookVars,
  envVars, pumpVars, castVars, rtVars, thVars>>
\* variables a lock or unlock call of a goroutine leaves alone
notThreads == <<hubVars, queueVars, streamVars, sfuVars, recVars, wsVars, busVars, lockVars,
  rowVars, offerVars, hookVars, envVars, pumpVars, castVars, rtVars, udpVars>>
\* the Hub variables an SFU call leaves alone unless it sends to a client
hubButSend == <<cstate, cloc, webinars, subs, pubsubs, sent, enq, openFailed>>

\* ------------------------------------------------------------------ helpers
\* mutant of AudienceCount: len(h.webinars) instead of len(h.webinars[webinarID])
AudienceCountOfMap(i, r) ==
  Cardinality({x \in Rooms : webinars[i][x].has})

\* len(h.webinars[webinarID]) under RLock
AudienceCount(i, r) ==
  Cardinality(webinars[i][r].m)

\* clients for which Register has run and Unregister has not
RegisteredIn(i, r) ==
  {c \in Clients : cstate[c] = "registered" /\ cloc[c] = [inst |-> i, room |-> r]}

\* mutant of TrySend: the message is appended whatever the length of the queue
TrySendOverflow(q, m) == Append(q, m)

\* non-blocking send on c.send: select { case c.send <- msg: default: }
TrySend(q, m) == IF Len(q) < QueueCap THEN Append(q, m) ELSE q

\* ------------------------------------------------------------------ Init
InitHub ==
  /\ cstate = [c \in Clients |-> "new"]
  /\ cloc = [c \in Clients |-> NoLoc]
  /\ webinars = [i \in Instances |-> [r \in Rooms |-> NoRoom]]
  /\ subs = [i \in Instances |-> [r \in Rooms |-> NoSub]]
  /\ pubsubs = <<>>
  /\ send = [c \in Clients |-> <<>>]
  /\ sent = <<>>
  /\ enq = [c \in Clients |-> [m \in MsgIds |-> 0]]
  /\ openFailed = [i \in Instances |-> [r \in Rooms |-> FALSE]]

InitQueue ==
  /\ recordingsQ = <<>>
  /\ dlq = <<>>
  /\ wjob = [w \in Workers |-> NoJob]
  /\ jenq = [j \in JobIds |-> FALSE]
  /\ jprocs = [j \in JobIds |-> 0]
  /\ jfails = [j \in JobIds |-> 0]
  /\ jdone = [j \in JobIds |-> FALSE]

NoCallback == [pc |-> "none", room |-> "none", count |-> 0, sid |-> 0, peak |-> 0]

InitStream ==
  /\ sessions = <<>>
  /\ cb = [c \in Clients |-> NoCallback]
  /\ maxCount = [r \in Rooms |-> 0]

InitSfu ==
  /\ roomExists = FALSE
  /\ publisher = NoPC
  /\ tracks = <<>>
  /\ subscribers = [c \in Clients |-> NoPC]
  /\ recordingSink = NoSession
  /\ pcs = <<>>
  /\ relays = <<>>
  /\ tpc = [c \in Clients |-> "idle"]
  /\ tseen = [c \in Clients |-> NoPC]
  /\ nsub = [c \in Clients |-> 0]

InitRec ==
  /\ svcSessions = NoSession
  /\ recSessions = <<>>
  /\ rop = [o \in Requests |-> "idle"]
  /\ rsess = [o \in Requests |-> NoSession]

InitWs == resp = NoResp

\* main.go builds the Hub with the Redis client as publisher and subscriber
InitBus == redis = "up"

InitLocks ==
  /\ roomMu = NoClient
  /\ hubMu = {}
  /\ lpc = [c \in Clients |-> "idle"]

InitRows == recRow = [o \in Requests |-> NoRow]

InitOffers == noffer = [c \in Clients |-> 0]

InitHook ==
  /\ recs = <<>>
  /\ jobRec = [j \in JobIds |-> NoPayload]
  /\ hookResp = NoHookResp

\* SubscribeWebinar has returned: the goroutine is at its select, nothing published yet
InitEnv ==
  /\ wire = <<>>
  /\ msgCh = <<>>
  /\ loopPc = "select"
  /\ loopCur = 0
  /\ ctxDone = FALSE
  /\ calls = <<>>

InitPump == wpump = [c \in Clients |-> "run"]

\* the goroutines that call BroadcastToWebinar: a read loop (through
\* BroadcastToWebinarAndPublish) and the room's subscription handler
Broadcasters == {"reader", "subscription"}

NoCast == [pc |-> "idle", msg |-> 0, room |-> 0, start |-> {}, seen |-> {}]

InitCast ==
  /\ bcast = [b \in Broadcasters |-> NoCast]
  /\ ncast = 0
  /\ acc = [c \in Clients |-> <<>>]
  /\ out = [c \in Clients |-> <<>>]

InitRelayMu == relayMu = [t \in 1..(MaxPCs * MaxTracks) |-> "free"]

MaxThreads == 3      \* goroutines that take locks at the same time
Threads == 1..MaxThreads

InitThreads ==
  /\ thProg = [th \in Threads |-> "none"]
  /\ thPc = [th \in Threads |-> 1]

InitUdp ==
  /\ udpClosed = {}
  /\ udpBad = {}
  /\ udpLate = {}

Init ==
  /\ InitHub /\ InitQueue /\ InitStream /\ InitSfu /\ InitRec /\ InitWs /\ InitBus /\ InitLocks
  /\ InitRows /\ InitOffers /\ InitHook /\ InitEnv /\ InitPump /\ InitCast /\ InitRelayMu /\ InitThreads /\ InitUdp

\* ------------------------------------------------------------------ Hub
\* RedisPubSub.SubscribeWebinar on success: the goroutine starts, about to run its select
NewSubscription(i, r) ==
  [inst |-> i, room |-> r, ch |-> <<>>, pc |-> "select", cur |-> 0, cancelled |-> FALSE]

\* cancel(): cancelCtx().  A goroutine parked in the select is woken by ctx.Done,
\* returns and closes the pubsub; one that is elsewhere sees Done at its next select.
Cancel(ps, id) ==
  [ps EXCEPT ![id].cancelled = TRUE,
             ![id].pc = IF ps[id].pc = "parked" THEN "closed" ELSE ps[id].pc]

\* Hub.Register, called once by ServeWs for a fresh client; ok: SubscribeWebinar returned no error
Register(c, i, r, ok) ==
  /\ cstate[c] = "new"
  /\ \A d \in Clients : d < c => cstate[d] # "new"     \* fresh ids are taken in order
  /\ LET fresh   == ~webinars[i][r].has
         members == IF fresh THEN {} ELSE webinars[i][r].m
     IN  /\ webinars' = [webinars EXCEPT ![i][r] = [has |-> TRUE, m |-> members \cup {c}]]
         /\ IF fresh /\ ok
              THEN /\ pubsubs' = Append(pubsubs, NewSubscription(i, r))
                   /\ subs' = [subs EXCEPT ![i][r] = Len(pubsubs) + 1]
              ELSE UNCHANGED <<pubsubs, subs>>
         /\ openFailed' = IF fresh THEN [openFailed EXCEPT ![i][r] = ~ok] ELSE openFailed
  /\ cstate' = [cstate EXCEPT ![c] = "registered"]
  /\ cloc' = [cloc EXCEPT ![c] = [inst |-> i, room |-> r]]
  /\ UNCHANGED <<send, sent, enq>>

\* mutant of Unregister: the last client leaves and the subscription is neither
\* cancelled nor forgotten
UnregisterKeepsSub(c) ==
  /\ cstate[c] = "registered"
  /\ LET i == cloc[c].inst
         r == cloc[c].room
         m == webinars[i][r].m \ {c}
     IN  webinars' = [webinars EXCEPT ![i][r] = IF m = {} THEN NoRoom ELSE [has |-> TRUE, m |-> m]]
  /\ cstate' = [cstate EXCEPT ![c] = "gone"]
  /\ send' = [send EXCEPT ![c] = <<>>]
  /\ UNCHANGED <<cloc, pubsubs, subs, sent, enq, openFailed>>

\* Hub.Unregister, called once from the deferred cleanup of readPump
Unregister(c) ==
  /\ cstate[c] = "registered"
  /\ LET i == cloc[c].inst
         r == cloc[c].room
     IN  IF webinars[i][r].has
           THEN LET m == webinars[i][r].m \ {c}
                IN  IF m = {}
                      THEN /\ webinars' = [webinars EXCEPT ![i][r] = NoRoom]
                           /\ IF subs[i][r] # NoSub
                                THEN /\ pubsubs' = Cancel(pubsubs, subs[i][r])
                                     /\ subs' = [subs EXCEPT ![i][r] = NoSub]
                                ELSE UNCHANGED <<pubsubs, subs>>
                      ELSE /\ webinars' = [webinars EXCEPT ![i][r].m = m]
                           /\ UNCHANGED <<pubsubs, subs>>
           ELSE UNCHANGED <<webinars, pubsubs, subs>>
  /\ cstate' = [cstate EXCEPT ![c] = "gone"]
  \* the Client and its channel become unreachable
  /\ send' = [send EXCEPT ![c] = <<>>]
  /\ UNCHANGED <<cloc, sent, enq, openFailed>>

\* Hub.BroadcastToWebinar: the effect on every Client.send of the room on instance i
BroadcastToWebinar(i, r, m) ==
  LET targets == webinars[i][r].m
  IN  /\ send' = [c \in Clients |-> IF c \in targets THEN TrySend(send[c], m) ELSE send[c]]
      /\ enq' = [c \in Clients |->
                   IF c \in targets /\ Len(send[c]) < QueueCap
                     THEN [enq[c] EXCEPT ![m] = @ + 1] ELSE enq[c]]

\* Redis delivers a published envelope to one open subscription of the channel
Deliver(p, m) ==
  IF p.pc = "parked" THEN [p EXCEPT !.pc = "handler", !.cur = m]
                     ELSE [p EXCEPT !.ch = Append(@, m)]

\* Hub.PublishToWebinarOnly with h.redis != nil (readPump, case "chat_message")
PublishToWebinarOnly(c) ==
  /\ cstate[c] = "registered"
  /\ Len(sent) < MaxMsgs
  /\ LET r == cloc[c].room
         m == Len(sent) + 1
     IN  /\ sent' = Append(sent, [from |-> c, room |-> r,
                                  regs |-> {d \in Clients : cstate[d] = "registered"
                                                            /\ cloc[d].room = r}])
         /\ pubsubs' = [id \in DOMAIN pubsubs |->
                          IF pubsubs[id].room = r /\ pubsubs[id].pc # "closed"
                            THEN Deliver(pubsubs[id], m) ELSE pubsubs[id]]
  /\ UNCHANGED <<cstate, cloc, webinars, subs, send, enq, openFailed>>

\* the select of the subscription goroutine: ctx.Done and the channel are chosen
\* between at random when both are ready
SubSelect(id) ==
  /\ id \in DOMAIN pubsubs
  /\ pubsubs[id].pc = "select"
  /\ \/ /\ pubsubs[id].cancelled
        /\ pubsubs' = [pubsubs EXCEPT ![id].pc = "closed", ![id].ch = <<>>]
     \/ /\ pubsubs[id].ch # <<>>
        /\ pubsubs' = [pubsubs EXCEPT ![id].pc = "handler",
                                      ![id].cur = Head(pubsubs[id].ch),
                                      ![id].ch = Tail(pubsubs[id].ch)]
     \/ /\ ~pubsubs[id].cancelled
        /\ pubsubs[id].ch = <<>>
        /\ pubsubs' = [pubsubs EXCEPT ![id].pc = "parked"]
  /\ UNCHANGED <<cstate, cloc, webinars, subs, send, sent, enq, openFailed>>

\* handler(p.Event, p.Data): the closure registered by Hub.Register
SubHandler(id) ==
  /\ id \in DOMAIN pubsubs
  /\ pubsubs[id].pc = "handler"
  /\ BroadcastToWebinar(pubsubs[id].inst, pubsubs[id].room, pubsubs[id].cur)
  /\ pubsubs' = [pubsubs EXCEPT ![id].pc = "select", ![id].cur = 0]
  /\ UNCHANGED <<cstate, cloc, webinars, subs, sent, openFailed>>

\* writePump takes one message from c.send and writes it to the socket
WritePump(c) ==
  /\ cstate[c] = "registered"
  /\ send[c] # <<>>
  /\ send' = [send EXCEPT ![c] = Tail(@)]
  /\ UNCHANGED <<cstate, cloc, webinars, subs, pubsubs, sent, enq, openFailed>>

\* register / unregister traffic of two instances over two rooms
NextHub ==
  \/ \E c \in Clients, i \in Instances, r \in Rooms, ok \in BOOLEAN :
        Register(c, i, r, ok) /\ UNCHANGED notHub
  \/ \E c \in Clients : Unregister(c) /\ UNCHANGED notHub
  \/ \E id \in 1..MaxClients : SubSelect(id) /\ UNCHANGED notHub

SpecHub == Init /\ [][NextHub]_vars

\* chat traffic of one room shared by two instances over the bus
ChatRoom == "R1"

NextChat ==
  \/ \E c \in Clients, i \in Instances, ok \in BOOLEAN :
        Register(c, i, ChatRoom, ok) /\ UNCHANGED notHub
  \/ \E c \in Clients : Unregister(c) /\ UNCHANGED notHub
  \/ \E c \in Clients : PublishToWebinarOnly(c) /\ UNCHANGED notHub
  \/ \E id \in 1..MaxClients : SubSelect(id) /\ UNCHANGED notHub
  \/ \E id \in 1..MaxClients : SubHandler(id) /\ UNCHANGED notHub
  \/ \E c \in Clients : WritePump(c) /\ UNCHANGED notHub

SpecChat == Init /\ [][NextChat]_vars

\* ------------------------------------------------------------------ claims on the Hub
SeqRange(q) == {q[k] : k \in DOMAIN q}

C4_AudienceCount ==
  /\ [](\A i \in Instances, r \in Rooms :
          /\ AudienceCount(i, r) = Cardinality(RegisteredIn(i, r))
          /\ ~webinars[i][r].has => AudienceCount(i, r) = 0)
  /\ [][\A c \in Clients, i \in Instances, r \in Rooms :
          /\ (cstate[c] = "new" /\ cstate'[c] = "registered"
                 /\ cloc'[c] = [inst |-> i, room |-> r])
               => AudienceCount(i, r)' = AudienceCount(i, r) + 1
          /\ (cstate[c] = "registered" /\ cstate'[c] = "gone"
                 /\ cloc[c] = [inst |-> i, room |-> r])
               => AudienceCount(i, r)' = AudienceCount(i, r) - 1]_vars

\* C4 witness: a room counts two clients after another client has left
C4_Witness ==
  /\ \E i \in Instances, r \in Rooms : AudienceCount(i, r) = 2
  /\ \E c \in Clients : cstate[c] = "gone"

\* message m is no longer in flight on any subscription that can still deliver it
Settled(m) ==
  \A id \in DOMAIN pubsubs :
    pubsubs[id].pc # "closed" =>
      /\ m \notin SeqRange(pubsubs[id].ch)
      /\ ~(pubsubs[id].pc = "handler" /\ pubsubs[id].cur = m)

\* C3: with PubSub available, a chat_message routed through PublishToWebinarOnly is
\* enqueued exactly once for the sender and for every other client registered in
\* the room, on whichever instance; no client is enqueued it twice
C3_ChatExactlyOnce ==
  \A m \in DOMAIN sent :
    /\ \A c \in Clients : enq[c][m] <= 1
    /\ Settled(m) =>
          \A c \in sent[m].regs :
            (cstate[c] = "registered" /\ ~openFailed[cloc[c].inst][sent[m].room])
              => enq[c][m] = 1

\* ------------------------------------------------------------------ upload job queue
\* Queue.EnqueueRecordingUpload: RPUSH worker:recordings with Attempt 0
EnqueueRecordingUpload(j) ==
  /\ ~jenq[j]
  /\ \A k \in JobIds : k < j => jenq[k]
  /\ recordingsQ' = Append(recordingsQ, [id |-> j, attempt |-> 0])
  /\ jenq' = [jenq EXCEPT ![j] = TRUE]
  /\ UNCHANGED <<dlq, wjob, jprocs, jfails, jdone>>

\* Queue.Dequeue: BLPOP worker:recordings
Dequeue(w) ==
  /\ wjob[w] = NoJob
  /\ recordingsQ # <<>>
  /\ wjob' = [wjob EXCEPT ![w] = Head(recordingsQ)]
  /\ recordingsQ' = Tail(recordingsQ)
  /\ UNCHANGED <<dlq, jenq, jprocs, jfails, jdone>>

\* mutant of Retry: attempt > MaxRetries instead of >=
RetryOffByOne(job) ==
  LET next == [job EXCEPT !.attempt = @ + 1]
  IN  IF next.attempt > MaxRetries
        THEN /\ dlq' = Append(dlq, next)
             /\ UNCHANGED recordingsQ
        ELSE /\ recordingsQ' = Append(recordingsQ, next)
             /\ UNCHANGED dlq

\* Queue.Retry: job.Attempt++, then RPUSH to worker:dlq when Attempt >= MaxRetries,
\* else RPUSH to worker:recordings
Retry(job) ==
  LET next == [job EXCEPT !.attempt = @ + 1]
  IN  IF next.attempt >= MaxRetries
        THEN /\ dlq' = Append(dlq, next)
             /\ UNCHANGED recordingsQ
        ELSE /\ recordingsQ' = Append(recordingsQ, next)
             /\ UNCHANGED dlq

\* one iteration of RecordingProcessor.Run after Dequeue: Process, and Retry on error
Process(w, ok) ==
  /\ wjob[w] # NoJob
  /\ LET job == wjob[w]
     IN  /\ jprocs' = [jprocs EXCEPT ![job.id] = @ + 1]
         /\ IF ok
              THEN /\ jdone' = [jdone EXCEPT ![job.id] = TRUE]
                   /\ UNCHANGED <<recordingsQ, dlq, jfails>>
              ELSE /\ jfails' = [jfails EXCEPT ![job.id] = @ + 1]
                   /\ Retry(job)
                   /\ UNCHANGED jdone
  /\ wjob' = [wjob EXCEPT ![w] = NoJob]
  /\ UNCHANGED jenq

NextQueue ==
  \/ \E j \in JobIds : EnqueueRecordingUpload(j) /\ UNCHANGED notQueue
  \/ \E w \in Workers : Dequeue(w) /\ UNCHANGED notQueue
  \/ \E w \in Workers, ok \in BOOLEAN : Process(w, ok) /\ UNCHANGED notQueue

SpecQueue == Init /\ [][NextQueue]_vars

\* ------------------------------------------------------------------ claims on the job queue
InQueue(q, j) == \E k \in DOMAIN q : q[k].id = j
Copies(q, j) == Cardinality({k \in DOMAIN q : q[k].id = j})
Held(j) == {w \in Workers : wjob[w].id = j}

StreamInst == "I1"
Max(a, b) == IF a >= b THEN a ELSE b

\* onAudience(c.WebinarID, count) starts, after h.mu.Unlock
StartCallback(c, r, count) ==
  /\ cb' = [cb EXCEPT ![c] = [pc |-> "get", room |-> r, count |-> count, sid |-> 0, peak |-> 0]]
  /\ maxCount' = [maxCount EXCEPT ![r] = Max(@, count)]

\* Hub.Register with the handler of main.go installed
RegisterWithHandler(c, r) ==
  /\ cb[c].pc = "none"
  /\ Register(c, StreamInst, r, TRUE)
  /\ StartCallback(c, r, AudienceCount(StreamInst, r)')
  /\ UNCHANGED sessions

\* Hub.Unregister with the handler installed: called only if count > 0
UnregisterWithHandler(c) ==
  /\ cb[c].pc = "none"
  /\ cstate[c] = "registered"
  /\ cloc[c].inst = StreamInst
  /\ Unregister(c)
  /\ LET r == cloc[c].room
     IN  IF AudienceCount(StreamInst, r)' > 0
           THEN StartCallback(c, r, AudienceCount(StreamInst, r)')
           ELSE UNCHANGED <<cb, maxCount>>
  /\ UNCHANGED sessions

\* Repository.GetActiveByWebinar: the latest row of the webinar with ended_at NULL
\* (Repository.End has no caller, so every row is active)
ActiveRows(r) == {k \in DOMAIN sessions : sessions[k].webinar = r}

\* Repository.GetOrCreateActive, first statement
CbGetActive(c) ==
  /\ cb[c].pc = "get"
  /\ LET rows == ActiveRows(cb[c].room)
     IN  IF rows = {}
           THEN cb' = [cb EXCEPT ![c].pc = "create"]
           ELSE LET k == CHOOSE x \in rows : \A y \in rows : y <= x
                IN  cb' = [cb EXCEPT ![c].pc = "update", ![c].sid = k,
                                     ![c].peak = sessions[k].peak]
  /\ UNCHANGED <<sessions, maxCount>>

\* Repository.GetOrCreateActive, second statement: Repository.Create
CbCreate(c) ==
  /\ cb[c].pc = "create"
  /\ sessions' = Append(sessions, [webinar |-> cb[c].room, peak |-> 0])
  /\ cb' = [cb EXCEPT ![c].pc = "update", ![c].sid = Len(sessions) + 1, ![c].peak = 0]
  /\ UNCHANGED maxCount

\* Repository.UpdatePeakViewers: UPDATE ... WHERE id = $2 AND $1 > peak_viewers
UpdatePeakViewers(rows, sid, peak) ==
  IF peak > rows[sid].peak THEN [rows EXCEPT ![sid].peak = peak] ELSE rows

\* the rest of the callback: if count > session.PeakViewers { UpdatePeakViewers }
CbUpdate(c) ==
  /\ cb[c].pc = "update"
  /\ sessions' = IF cb[c].count > cb[c].peak
                   THEN UpdatePeakViewers(sessions, cb[c].sid, cb[c].count)
                   ELSE sessions
  /\ cb' = [cb EXCEPT ![c] = NoCallback]
  /\ UNCHANGED maxCount

NextStream ==
  \/ \E c \in Clients, r \in Rooms : RegisterWithHandler(c, r) /\ UNCHANGED notStream
  \/ \E c \in Clients : UnregisterWithHandler(c) /\ UNCHANGED notStream
  \/ \E c \in Clients : CbGetActive(c) /\ UNCHANGED <<hubVars, notStream>>
  \/ \E c \in Clients : CbCreate(c) /\ UNCHANGED <<hubVars, notStream>>
  \/ \E c \in Clients : CbUpdate(c) /\ UNCHANGED <<hubVars, notStream>>

SpecStream == Init /\ [][NextStream]_vars

\* ------------------------------------------------------------------ claims on stream sessions
\* C8: for every webinar at most one stream session with no ended_at exists, under
\* every interleaving of audience-change callbacks
C8_OneActiveSession ==
  \A r \in Rooms : Cardinality(ActiveRows(r)) <= 1

\* C7: once the callbacks of a sequence of register/unregister calls have completed,
\* the peak_viewers of an active session equals the highest local audience count
\* its room has reached
C7_PeakViewers ==
  (\A c \in Clients : cb[c].pc = "none") =>
    \A k \in DOMAIN sessions : sessions[k].peak = maxCount[sessions[k].webinar]

\* the part of C7 that the WHERE guard does give: peak_viewers of a row never decreases
PeakNeverDecreases ==
  [][\A k \in DOMAIN sessions : sessions'[k].peak >= sessions[k].peak]_vars

\* C7 restricted to behaviours in which C8 holds
PeakViewersIfOneSession ==
  (C8_OneActiveSession /\ \A c \in Clients : cb[c].pc = "none") =>
    \A k \in DOMAIN sessions : sessions[k].peak = maxCount[sessions[k].webinar]

\* ------------------------------------------------------------------ SFU
\* Client.Role, from the validated token
Role(c) == IF c = 1 THEN "speaker" ELSE IF c = 2 THEN "admin" ELSE "audience"

\* the server process runs.  A panic in a readPump goroutine unwinds through the
\* deferred cleanup and is recovered by gin.Recovery, installed on the router that
\* serves /ws: that goroutine ends ("crashed") and every other one goes on
Running == TRUE

\* a send that goes to every client of the room, as BroadcastToWebinar does
SendToRoom(c, event) ==
  [d \in Clients |-> IF d \in webinars[SfuInst][SfuRoom].m THEN TrySend(send[d], event)
                                                           ELSE send[d]]

\* Hub.SendToClient(webinarID, clientID, event, payload): the new value of send
SendToClient(c, event) ==
  [send EXCEPT ![c] = IF c \in webinars[SfuInst][SfuRoom].m THEN TrySend(@, event) ELSE @]

\* ServeWs: a client connects to the room on this instance
Connect(c) ==
  /\ Running
  /\ Register(c, SfuInst, SfuRoom, TRUE)
  /\ UNCHANGED <<sfuVars, recVars>>

\* a publisher peer connection as HandlePublisherOffer leaves it: negotiated and
\* installed (ok), or closed after a failed SetRemoteDescription / CreateAnswer /
\* SetLocalDescription
NewPublisherPC(c, ok) ==
  [kind |-> "pub", owner |-> c, open |-> ok, installed |-> ok, answered |-> FALSE, ntracks |-> 0]

\* a publisher offer accepted from any role
PublisherOfferBeginAnyRole(c, ok) ==
  /\ Running
  /\ cstate[c] = "registered"
  /\ tpc[c] = "idle"
  /\ Len(pcs) < MaxPCs
  /\ roomExists' = TRUE
  /\ IF publisher # NoPC
       THEN /\ tseen' = [tseen EXCEPT ![c] = publisher]
            /\ tpc' = [tpc EXCEPT ![c] = "po_close"]
            /\ UNCHANGED <<publisher, pcs>>
       ELSE /\ pcs' = Append(pcs, NewPublisherPC(c, ok))
            /\ publisher' = IF ok THEN Len(pcs) + 1 ELSE NoPC
            /\ tpc' = [tpc EXCEPT ![c] = IF ok THEN "po_answer" ELSE "idle"]
            /\ UNCHANGED tseen
  /\ UNCHANGED <<tracks, subscribers, recordingSink, relays, nsub>>
  /\ UNCHANGED <<hubVars, recVars>>

\* HandlePublisherOffer lines 92-105 up to the unlock before Close, or, when the room
\* has no publisher, lines 92-153 in one critical section
PublisherOfferBegin(c, ok) ==
  /\ Running
  /\ cstate[c] = "registered"
  /\ tpc[c] = "idle"
  /\ IF Role(c) # "speaker" /\ Role(c) # "admin"
       THEN UNCHANGED sfuVars
       ELSE /\ Len(pcs) < MaxPCs
            /\ roomExists' = TRUE
            /\ IF publisher # NoPC
                 THEN /\ tseen' = [tseen EXCEPT ![c] = publisher]
                      /\ tpc' = [tpc EXCEPT ![c] = "po_close"]
                      /\ UNCHANGED <<publisher, pcs>>
                 ELSE /\ pcs' = Append(pcs, NewPublisherPC(c, ok))
                      /\ publisher' = IF ok THEN Len(pcs) + 1 ELSE NoPC
                      /\ tpc' = [tpc EXCEPT ![c] = IF ok THEN "po_answer" ELSE "idle"]
                      /\ UNCHANGED tseen
            /\ UNCHANGED <<tracks, subscribers, recordingSink, relays, nsub>>
  /\ UNCHANGED <<hubVars, recVars>>

\* line 101: r.publisher.Close() with the room lock released.  The field is read
\* without the lock: the goroutine may see the current value or the one it saw
\* under the lock; Close on a nil pointer panics and readPump's deferred cleanup runs
PublisherOfferClose(c) ==
  /\ Running
  /\ tpc[c] = "po_close"
  /\ \E v \in {publisher, tseen[c]} :
       IF v = NoPC
         THEN /\ tpc' = [tpc EXCEPT ![c] = "panic"]
              /\ UNCHANGED pcs
         ELSE /\ pcs' = [pcs EXCEPT ![v].open = FALSE]
              /\ tpc' = [tpc EXCEPT ![c] = "po_lock"]
  /\ tseen' = [tseen EXCEPT ![c] = NoPC]
  /\ UNCHANGED <<roomExists, publisher, tracks, subscribers, recordingSink, relays, nsub>>
  /\ UNCHANGED <<hubVars, recVars>>

\* lines 102-153: lock again, clear publisher and tracks, create and negotiate the
\* new peer connection, install it on success
PublisherOfferInstall(c, ok) ==
  /\ Running
  /\ tpc[c] = "po_lock"
  /\ pcs' = Append(pcs, NewPublisherPC(c, ok))
  /\ publisher' = IF ok THEN Len(pcs) + 1 ELSE NoPC
  /\ tracks' = <<>>
  /\ tpc' = [tpc EXCEPT ![c] = IF ok THEN "po_answer" ELSE "idle"]
  /\ UNCHANGED <<roomExists, subscribers, recordingSink, relays, tseen, nsub>>
  /\ UNCHANGED <<hubVars, recVars>>

\* the peer connection whose answer goroutine c is about to send: the last one it created
AnswerOf(c) ==
  CHOOSE id \in DOMAIN pcs :
    /\ pcs[id].kind = "pub" /\ pcs[id].owner = c
    /\ \A j \in DOMAIN pcs : (pcs[j].kind = "pub" /\ pcs[j].owner = c) => j <= id

\* lines 155-158: sendToClient("webrtc_publisher_answer", ...); the publisher's media
\* can start once the answer is on its way to the client
PublisherOfferAnswer(c) ==
  /\ Running
  /\ tpc[c] = "po_answer"
  /\ send' = SendToClient(c, "webrtc_publisher_answer")
  /\ pcs' = [pcs EXCEPT ![AnswerOf(c)].answered = (send'[c] # send[c])]
  /\ tpc' = [tpc EXCEPT ![c] = "idle"]
  /\ UNCHANGED <<roomExists, publisher, tracks, subscribers, recordingSink, relays, tseen, nsub>>
  /\ UNCHANGED <<hubButSend, recVars>>

\* a relayTrack as the OnTrack callback builds it, with its forwarding goroutine
\* not yet started
NewRelayTrack(id) ==
  [pc |-> id, locals |-> <<>>, st |-> "attach", nread |-> 0, snapN |-> 0, widx |-> 0,
   sink |-> NoSession]

\* a TrackLocalStaticRTP added to subscriber peer connection id; got is the log of
\* the packets written to it
NewLocal(id) == [sub |-> id, got |-> <<>>]

\* the OnTrack callback of publisher peer connection id, lines 127-130: the relay is
\* appended to the room's tracks under the room lock
OnTrack(id) ==
  /\ Running
  /\ id \in DOMAIN pcs
  /\ pcs[id].kind = "pub" /\ pcs[id].answered /\ pcs[id].open
  /\ pcs[id].ntracks < MaxTracks
  /\ relays' = Append(relays, NewRelayTrack(id))
  /\ tracks' = Append(tracks, Len(relays) + 1)
  /\ pcs' = [pcs EXCEPT ![id].ntracks = @ + 1]
  /\ UNCHANGED <<roomExists, publisher, subscribers, recordingSink, tpc, tseen, nsub>>
  /\ UNCHANGED <<hubVars, recVars>>

\* the orders in which a range over a Go map can visit the keys S
Orders(S) ==
  {s \in [1..Cardinality(S) -> S] :
     \A a, b \in 1..Cardinality(S) : a # b => s[a] # s[b]}

\* lines 131-132: relayTrackToSubscribers(relay), then go relay.readAndForward()
OnTrackRelay(t) ==
  /\ Running
  /\ t \in DOMAIN relays
  /\ relays[t].st = "attach"
  /\ \E order \in Orders({c \in Clients : subscribers[c] # NoPC}) :
       relays' = [relays EXCEPT
                    ![t].locals = @ \o [k \in 1..Len(order) |-> NewLocal(subscribers[order[k]])],
                    ![t].st = "read"]
  /\ UNCHANGED <<roomExists, publisher, tracks, subscribers, recordingSink, pcs, tpc, tseen, nsub>>
  /\ UNCHANGED <<hubVars, recVars>>

\* a subscriber peer connection as HandleSubscribe leaves it: offered and stored
\* (ok), or closed after a failed CreateOffer / SetLocalDescription
NewSubscriberPC(c, ok) ==
  [kind |-> "sub", owner |-> c, open |-> ok, installed |-> ok, answered |-> FALSE, ntracks |-> 0]

\* a subscribe that does not look for a stream before it builds the session
HandleSubscribeNoCheck(c, ok) ==
  /\ Running
  /\ cstate[c] = "registered"
  /\ tpc[c] = "idle"
  /\ nsub[c] < MaxSubscribes
  /\ nsub' = [nsub EXCEPT ![c] = @ + 1]
  /\ Len(pcs) < MaxPCs
  /\ pcs' = Append(pcs, NewSubscriberPC(c, ok))
  /\ relays' = [t \in DOMAIN relays |->
                  IF t \in SeqRange(tracks)
                    THEN [relays[t] EXCEPT !.locals = Append(@, NewLocal(Len(pcs) + 1))]
                    ELSE relays[t]]
  /\ subscribers' = IF ok THEN [subscribers EXCEPT ![c] = Len(pcs) + 1] ELSE subscribers
  /\ send' = IF ok THEN SendToClient(c, "webrtc_subscriber_offer") ELSE send
  /\ UNCHANGED <<roomExists, publisher, tracks, recordingSink, tpc, tseen>>
  /\ UNCHANGED <<hubButSend, recVars>>

\* SFU.HandleSubscribe lines 231-286: what it does to the room and to the client's queue
SubscribeSession(c, ok) ==
  /\ IF ~roomExists \/ publisher = NoPC \/ tracks = <<>>
       THEN /\ send' = SendToClient(c, "webrtc_error")
            /\ UNCHANGED <<roomExists, publisher, tracks, subscribers, recordingSink, pcs,
                           relays, tpc, tseen>>
       ELSE /\ Len(pcs) < MaxPCs
            /\ pcs' = Append(pcs, NewSubscriberPC(c, ok))
            /\ relays' = [t \in DOMAIN relays |->
                            IF t \in SeqRange(tracks)
                              THEN [relays[t] EXCEPT !.locals = Append(@, NewLocal(Len(pcs) + 1))]
                              ELSE relays[t]]
            /\ subscribers' = IF ok THEN [subscribers EXCEPT ![c] = Len(pcs) + 1]
                                    ELSE subscribers
            /\ send' = IF ok THEN SendToClient(c, "webrtc_subscriber_offer") ELSE send
            /\ UNCHANGED <<roomExists, publisher, tracks, recordingSink, tpc, tseen>>
  /\ UNCHANGED <<hubButSend, recVars>>

\* SFU.HandleSubscribe, one critical section of the room lock
HandleSubscribe(c, ok) ==
  /\ Running
  /\ cstate[c] = "registered"
  /\ tpc[c] = "idle"
  /\ nsub[c] < MaxSubscribes
  /\ nsub' = [nsub EXCEPT ![c] = @ + 1]
  /\ SubscribeSession(c, ok)

\* SFU.HandleSubscriberAnswer
HandleSubscriberAnswer(c) ==
  /\ Running
  /\ cstate[c] = "registered"
  /\ tpc[c] = "idle"
  /\ IF roomExists /\ subscribers[c] # NoPC
       THEN pcs' = [pcs EXCEPT ![subscribers[c]].answered = TRUE]
       ELSE UNCHANGED pcs
  /\ UNCHANGED <<roomExists, publisher, tracks, subscribers, recordingSink, relays, tpc, tseen, nsub>>
  /\ UNCHANGED <<hubVars, recVars>>

\* mutant of UnregisterClient: the session leaves the map and its peer connection stays open
UnregisterClientNoClose(c) ==
  IF roomExists /\ subscribers[c] # NoPC
    THEN /\ subscribers' = [subscribers EXCEPT ![c] = NoPC]
         /\ UNCHANGED pcs
    ELSE UNCHANGED <<pcs, subscribers>>

\* SFU.UnregisterClient
UnregisterClient(c) ==
  IF roomExists /\ subscribers[c] # NoPC
    THEN /\ pcs' = [pcs EXCEPT ![subscribers[c]].open = FALSE]
         /\ subscribers' = [subscribers EXCEPT ![c] = NoPC]
    ELSE UNCHANGED <<pcs, subscribers>>

\* readPump leaves its loop (read error, or the panic above) and the deferred
\* function starts: c.sfu.UnregisterClient(c.WebinarID, c.ID)
CleanupSfu(c) ==
  /\ Running
  /\ cstate[c] = "registered"
  /\ tpc[c] \in {"idle", "panic"}
  /\ UnregisterClient(c)
  /\ tpc' = [tpc EXCEPT ![c] = IF tpc[c] = "panic" THEN "panic_cleanup" ELSE "cleanup"]
  /\ UNCHANGED <<roomExists, publisher, tracks, recordingSink, relays, tseen, nsub>>
  /\ UNCHANGED <<hubVars, recVars>>

\* the deferred function with hub.Unregister moved in front of the SFU teardown
CleanupHubFirst(c) ==
  /\ Running
  /\ tpc[c] \in {"idle", "cleanup"}
  /\ Unregister(c)
  /\ tpc' = [tpc EXCEPT ![c] = "exit"]
  /\ UNCHANGED <<roomExists, publisher, tracks, subscribers, recordingSink, pcs, relays, tseen, nsub>>
  /\ UNCHANGED recVars

\* the deferred function goes on: c.hub.Unregister(c); c.conn.Close()
CleanupHub(c) ==
  /\ Running
  /\ tpc[c] \in {"cleanup", "panic_cleanup"}
  /\ Unregister(c)
  /\ tpc' = [tpc EXCEPT ![c] = IF tpc[c] = "panic_cleanup" THEN "crashed" ELSE "exit"]
  /\ UNCHANGED <<roomExists, publisher, tracks, subscribers, recordingSink, pcs, relays, tseen, nsub>>
  /\ UNCHANGED recVars

\* Client.writePump while the process runs
SfuWritePump(c) ==
  /\ Running
  /\ WritePump(c)
  /\ UNCHANGED <<sfuVars, recVars>>

\* SFU.ClosePublisher
ClosePublisher ==
  /\ Running
  /\ roomExists
  /\ IF publisher # NoPC
       THEN /\ pcs' = [pcs EXCEPT ![publisher].open = FALSE]
            /\ publisher' = NoPC
       ELSE UNCHANGED <<pcs, publisher>>
  /\ tracks' = <<>>
  /\ UNCHANGED <<roomExists, subscribers, recordingSink, relays, tpc, tseen, nsub>>
  /\ UNCHANGED <<hubVars, recVars>>

NextSfu ==
  \/ \E c \in Clients : Connect(c) /\ UNCHANGED notSfu
  \/ \E c \in Clients, ok \in BOOLEAN : PublisherOfferBegin(c, ok) /\ UNCHANGED notSfu
  \/ \E c \in Clients : PublisherOfferClose(c) /\ UNCHANGED notSfu
  \/ \E c \in Clients, ok \in BOOLEAN : PublisherOfferInstall(c, ok) /\ UNCHANGED notSfu
  \/ \E c \in Clients : PublisherOfferAnswer(c) /\ UNCHANGED notSfu
  \/ \E id \in 1..MaxPCs : OnTrack(id) /\ UNCHANGED notSfu
  \/ \E t \in 1..(MaxPCs * MaxTracks) : OnTrackRelay(t) /\ UNCHANGED notSfu
  \/ \E c \in Clients : CleanupSfu(c) /\ UNCHANGED notSfu
  \/ \E c \in Clients : CleanupHub(c) /\ UNCHANGED notSfu
  \/ ClosePublisher /\ UNCHANGED notSfu

SpecSfu == Init /\ [][NextSfu]_vars

\* ------------------------------------------------------------------ claims on the SFU
\* C1: at most one Publisher Session exists at any time: every peer connection that
\* was installed as the room's publisher and is not the current one has been closed
C1_OnePublisher ==
  \A id \in DOMAIN pcs :
    (pcs[id].kind = "pub" /\ pcs[id].installed /\ pcs[id].open) => publisher = id

\* C9: once the client whose offer created the Publisher Session has disconnected
\* and its cleanup has run, that peer connection is closed, it is not the room's
\* publisher and none of its tracks is in the room's track list
C9_PublisherDestroyedOnDisconnect ==
  \A id \in DOMAIN pcs :
    (pcs[id].kind = "pub" /\ pcs[id].installed /\ cstate[pcs[id].owner] = "gone") =>
      /\ ~pcs[id].open
      /\ publisher # id
      /\ \A t \in SeqRange(tracks) : relays[t].pc # id

\* ------------------------------------------------------------------ recorder
\* a recorder.Session as StartRecording builds it: ffmpeg started, both UDP
\* connections dialled; rtp is the log of the packets sent to ffmpeg
NewSession == [conns |-> TRUE, cmd |-> TRUE, rtp |-> <<>>]

\* Handler.StartRecording line 134: h.recorder.HasActiveRecording(webinarID); a
\* request that finds a session stored is answered 409
RecStartCheck(o) ==
  /\ Running
  /\ rop[o] = "idle"
  /\ rop' = [rop EXCEPT ![o] = IF svcSessions # NoSession THEN "idle" ELSE "start_tracks"]
  /\ UNCHANGED <<svcSessions, recSessions, rsess>>
  /\ UNCHANGED <<hubVars, sfuVars>>

\* Service.StartRecording lines 144-219: GetTrackInfo, then ports, SDP file, ffmpeg
\* and the UDP connections (ok: all of these succeed)
RecStartSpawn(o, ok) ==
  /\ Running
  /\ rop[o] = "start_tracks"
  /\ Len(recSessions) < MaxRecs
  /\ IF roomExists /\ tracks # <<>> /\ ok
       THEN /\ recSessions' = Append(recSessions, NewSession)
            /\ rsess' = [rsess EXCEPT ![o] = Len(recSessions) + 1]
            /\ rop' = [rop EXCEPT ![o] = "start_register"]
       ELSE /\ rop' = [rop EXCEPT ![o] = "idle"]
            /\ UNCHANGED <<recSessions, rsess>>
  /\ UNCHANGED svcSessions
  /\ UNCHANGED <<hubVars, sfuVars>>

\* SFU.RegisterRecordingSink, called at line 221
RegisterRecordingSink(sink) ==
  recordingSink' = IF roomExists THEN sink ELSE recordingSink

\* Service.StartRecording lines 220-221
RecStartRegister(o) ==
  /\ Running
  /\ rop[o] = "start_register"
  /\ RegisterRecordingSink(rsess[o])
  /\ rop' = [rop EXCEPT ![o] = "start_store"]
  /\ UNCHANGED <<svcSessions, recSessions, rsess>>
  /\ UNCHANGED <<roomExists, publisher, tracks, subscribers, pcs, relays, tpc, tseen, nsub>>
  /\ UNCHANGED hubVars

\* Service.StartRecording lines 224-232: svc.sessions[webinarID] = session
RecStartStore(o) ==
  /\ Running
  /\ rop[o] = "start_store"
  /\ svcSessions' = rsess[o]
  /\ rop' = [rop EXCEPT ![o] = "idle"]
  /\ rsess' = [rsess EXCEPT ![o] = NoSession]
  /\ UNCHANGED recSessions
  /\ UNCHANGED <<hubVars, sfuVars>>

\* Service.StopRecording lines 237-244: take the session out of svc.sessions, or
\* fail when there is none
RecStop(o) ==
  /\ Running
  /\ rop[o] = "idle"
  /\ IF svcSessions = NoSession
       THEN UNCHANGED <<svcSessions, rop, rsess>>
       ELSE /\ rsess' = [rsess EXCEPT ![o] = svcSessions]
            /\ svcSessions' = NoSession
            /\ rop' = [rop EXCEPT ![o] = "stop_unreg"]
  /\ UNCHANGED recSessions
  /\ UNCHANGED <<hubVars, sfuVars>>

\* SFU.UnregisterRecordingSink, called at line 246
UnregisterRecordingSink ==
  recordingSink' = IF roomExists THEN NoSession ELSE recordingSink

\* Service.StopRecording line 246
RecStopUnregister(o) ==
  /\ Running
  /\ rop[o] = "stop_unreg"
  /\ UnregisterRecordingSink
  /\ rop' = [rop EXCEPT ![o] = "stop_detach"]
  /\ UNCHANGED <<svcSessions, recSessions, rsess>>
  /\ UNCHANGED <<roomExists, publisher, tracks, subscribers, pcs, relays, tpc, tseen, nsub>>
  /\ UNCHANGED hubVars

\* Service.StopRecording lines 248-278: detach the connections and the process
\* from the session under session.mu, close them, stop ffmpeg
RecStopDetach(o) ==
  /\ Running
  /\ rop[o] = "stop_detach"
  /\ recSessions' = [recSessions EXCEPT ![rsess[o]].conns = FALSE, ![rsess[o]].cmd = FALSE]
  /\ rop' = [rop EXCEPT ![o] = "idle"]
  /\ rsess' = [rsess EXCEPT ![o] = NoSession]
  /\ UNCHANGED svcSessions
  /\ UNCHANGED <<hubVars, sfuVars>>

\* the request goroutine that runs in SpecRec: start and stop requests one after
\* the other, against every publisher operation
Operator == "A"

NextRec ==
  \/ \E c \in Clients : Connect(c) /\ UNCHANGED notSfu
  \/ \E c \in Clients, ok \in BOOLEAN : PublisherOfferBegin(c, ok) /\ UNCHANGED notSfu
  \/ \E c \in Clients : PublisherOfferClose(c) /\ UNCHANGED notSfu
  \/ \E c \in Clients, ok \in BOOLEAN : PublisherOfferInstall(c, ok) /\ UNCHANGED notSfu
  \/ \E c \in Clients : PublisherOfferAnswer(c) /\ UNCHANGED notSfu
  \/ \E id \in 1..MaxPCs : OnTrack(id) /\ UNCHANGED notSfu
  \/ \E t \in 1..(MaxPCs * MaxTracks) : OnTrackRelay(t) /\ UNCHANGED notSfu
  \/ ClosePublisher /\ UNCHANGED notSfu
  \/ \E o \in {Operator} : RecStartCheck(o) /\ UNCHANGED notSfu
  \/ \E o \in {Operator}, ok \in BOOLEAN : RecStartSpawn(o, ok) /\ UNCHANGED notSfu
  \/ \E o \in {Operator} : RecStartRegister(o) /\ UNCHANGED notSfu
  \/ \E o \in {Operator} : RecStartStore(o) /\ UNCHANGED notSfu
  \/ \E o \in {Operator} : RecStop(o) /\ UNCHANGED notSfu
  \/ \E o \in {Operator} : RecStopUnregister(o) /\ UNCHANGED notSfu
  \/ \E o \in {Operator} : RecStopDetach(o) /\ UNCHANGED notSfu

SpecRec == Init /\ [][NextRec]_vars

\* C10: in every reachable state the room has a Recording Sink only if it has a
\* Publisher Session
C10_SinkOnlyWithPublisher ==
  recordingSink # NoSession => publisher # NoPC

\* ------------------------------------------------------------------ relayTrack.readAndForward
\* line 167: rt.remote.Read(buf).  A packet that has arrived is returned, also after
\* the publisher peer connection was closed; with nothing buffered a closed
\* connection returns an error and the goroutine ends
RelayRead(t) ==
  /\ Running
  /\ t \in DOMAIN relays
  /\ relays[t].st = "read"
  /\ \/ /\ relays[t].nread < MaxPkts
        /\ relays' = [relays EXCEPT ![t].nread = @ + 1, ![t].st = "snap"]
     \/ /\ ~pcs[relays[t].pc].open
        /\ relays' = [relays EXCEPT ![t].st = "done"]
  /\ UNCHANGED <<roomExists, publisher, tracks, subscribers, recordingSink, pcs, tpc, tseen, nsub>>
  /\ UNCHANGED <<hubVars, recVars>>

\* lines 174-177: copy rt.locals under rt.mu
RelaySnapshot(t) ==
  /\ Running
  /\ t \in DOMAIN relays
  /\ relays[t].st = "snap"
  /\ relays' = [relays EXCEPT ![t].snapN = Len(relays[t].locals),
                              ![t].widx = IF relays[t].locals = <<>> THEN 0 ELSE 1,
                              ![t].st = IF relays[t].locals = <<>> THEN "sink" ELSE "write"]
  /\ UNCHANGED <<roomExists, publisher, tracks, subscribers, recordingSink, pcs, tpc, tseen, nsub>>
  /\ UNCHANGED <<hubVars, recVars>>

\* the turn of the loop with a buffer that holds the packet before the one just read
RelayWriteStale(t) ==
  /\ Running
  /\ t \in DOMAIN relays
  /\ relays[t].st = "write"
  /\ LET k == relays[t].widx IN
       relays' = [relays EXCEPT ![t].locals[k].got = Append(@, relays[t].nread - 1),
                                ![t].widx = IF k = relays[t].snapN THEN 0 ELSE k + 1,
                                ![t].st = IF k = relays[t].snapN THEN "sink" ELSE "write"]
  /\ UNCHANGED <<roomExists, publisher, tracks, subscribers, recordingSink, pcs, tpc, tseen, nsub>>
  /\ UNCHANGED <<hubVars, recVars>>

\* lines 178-180, one turn of the loop over the copy: local.Write(buf[:n])
RelayWrite(t) ==
  /\ Running
  /\ t \in DOMAIN relays
  /\ relays[t].st = "write"
  /\ LET k == relays[t].widx IN
       relays' = [relays EXCEPT ![t].locals[k].got = Append(@, relays[t].nread),
                                ![t].widx = IF k = relays[t].snapN THEN 0 ELSE k + 1,
                                ![t].st = IF k = relays[t].snapN THEN "sink" ELSE "write"]
  /\ UNCHANGED <<roomExists, publisher, tracks, subscribers, recordingSink, pcs, tpc, tseen, nsub>>
  /\ UNCHANGED <<hubVars, recVars>>

\* a loop that ends when it finds no sink
RelaySinkStops(t) ==
  /\ Running
  /\ t \in DOMAIN relays
  /\ relays[t].st = "sink"
  /\ relays' = [relays EXCEPT ![t].sink = recordingSink,
                              ![t].snapN = 0,
                              ![t].st = IF recordingSink = NoSession THEN "done" ELSE "rtp"]
  /\ UNCHANGED <<roomExists, publisher, tracks, subscribers, recordingSink, pcs, tpc, tseen, nsub>>
  /\ UNCHANGED <<hubVars, recVars>>

\* lines 182-185: read the room's sink under the room's read lock
RelaySink(t) ==
  /\ Running
  /\ t \in DOMAIN relays
  /\ relays[t].st = "sink"
  /\ relays' = [relays EXCEPT ![t].sink = recordingSink,
                              ![t].snapN = 0,
                              ![t].st = IF recordingSink = NoSession THEN "read" ELSE "rtp"]
  /\ UNCHANGED <<roomExists, publisher, tracks, subscribers, recordingSink, pcs, tpc, tseen, nsub>>
  /\ UNCHANGED <<hubVars, recVars>>

\* lines 186-190 and Sink.WriteRTP: under session.mu, send the copy to ffmpeg if
\* the session still has its connection
RelayWriteRTP(t) ==
  /\ Running
  /\ t \in DOMAIN relays
  /\ relays[t].st = "rtp"
  /\ recSessions' = [recSessions EXCEPT ![relays[t].sink].rtp =
                       IF recSessions[relays[t].sink].conns THEN Append(@, relays[t].nread) ELSE @]
  /\ relays' = [relays EXCEPT ![t].sink = NoSession, ![t].st = "read"]
  /\ UNCHANGED <<svcSessions, rop, rsess>>
  /\ UNCHANGED <<roomExists, publisher, tracks, subscribers, recordingSink, pcs, tpc, tseen, nsub>>
  /\ UNCHANGED hubVars

\* the room with its publisher live: client 1 has connected, its offer was accepted
\* and the answer is in its send queue; no remote track has arrived yet
InitLive ==
  /\ cstate = [c \in Clients |-> IF c = 1 THEN "registered" ELSE "new"]
  /\ cloc = [c \in Clients |-> IF c = 1 THEN [inst |-> SfuInst, room |-> SfuRoom] ELSE NoLoc]
  /\ webinars = [i \in Instances |-> [r \in Rooms |->
                   IF i = SfuInst /\ r = SfuRoom THEN [has |-> TRUE, m |-> {1}] ELSE NoRoom]]
  /\ subs = [i \in Instances |-> [r \in Rooms |->
               IF i = SfuInst /\ r = SfuRoom THEN 1 ELSE NoSub]]
  /\ pubsubs = <<NewSubscription(SfuInst, SfuRoom)>>
  /\ send = [c \in Clients |-> IF c = 1 THEN <<"webrtc_publisher_answer">> ELSE <<>>]
  /\ sent = <<>>
  /\ enq = [c \in Clients |-> [m \in MsgIds |-> 0]]
  /\ openFailed = [i \in Instances |-> [r \in Rooms |-> FALSE]]
  /\ InitQueue /\ InitStream /\ InitRec /\ InitWs /\ InitBus /\ InitLocks /\ InitRows
  /\ InitOffers /\ InitHook /\ InitEnv /\ InitPump /\ InitCast /\ InitRelayMu /\ InitThreads /\ InitUdp
  /\ roomExists = TRUE
  /\ publisher = 1
  /\ tracks = <<>>
  /\ subscribers = [c \in Clients |-> NoPC]
  /\ recordingSink = NoSession
  /\ pcs = <<[NewPublisherPC(1, TRUE) EXCEPT !.answered = TRUE]>>
  /\ relays = <<>>
  /\ tpc = [c \in Clients |-> "idle"]
  /\ tseen = [c \in Clients |-> NoPC]
  /\ nsub = [c \in Clients |-> 0]

NextRelay ==
  \/ \E c \in Clients : Connect(c) /\ UNCHANGED notSfu
  \/ \E id \in 1..MaxPCs : OnTrack(id) /\ UNCHANGED notSfu
  \/ \E t \in 1..(MaxPCs * MaxTracks) : OnTrackRelay(t) /\ UNCHANGED notSfu
  \/ \E c \in Clients, ok \in BOOLEAN : HandleSubscribe(c, ok) /\ UNCHANGED notSfu
  \/ \E c \in Clients : HandleSubscriberAnswer(c) /\ UNCHANGED notSfu
  \/ \E t \in 1..(MaxPCs * MaxTracks) : RelayRead(t) /\ UNCHANGED notSfu
  \/ \E t \in 1..(MaxPCs * MaxTracks) : RelaySnapshot(t) /\ UNCHANGED notSfu
  \/ \E t \in 1..(MaxPCs * MaxTracks) : RelayWrite(t) /\ UNCHANGED notSfu
  \/ \E t \in 1..(MaxPCs * MaxTracks) : RelaySink(t) /\ UNCHANGED notSfu
  \/ \E c \in Clients : CleanupSfu(c) /\ UNCHANGED notSfu
  \/ \E c \in Clients : CleanupHub(c) /\ UNCHANGED notSfu
  \/ ClosePublisher /\ UNCHANGED notSfu

SpecRelay == InitLive /\ [][NextRelay]_vars

\* the log is strictly increasing
Increasing(q) == \A a, b \in DOMAIN q : a < b => q[a] < q[b]

C11_LocalsOfCurrentSubscribers ==
  \A t \in DOMAIN relays :
    \A k \in DOMAIN relays[t].locals :
      \E c \in Clients : subscribers[c] = relays[t].locals[k].sub

\* ------------------------------------------------------------------ recorder, live room
\* the live room once the publisher's track has arrived: the OnTrack callback has
\* appended the relay and started its forwarding goroutine; nobody has subscribed
InitTracks ==
  /\ cstate = [c \in Clients |-> IF c = 1 THEN "registered" ELSE "new"]
  /\ cloc = [c \in Clients |-> IF c = 1 THEN [inst |-> SfuInst, room |-> SfuRoom] ELSE NoLoc]
  /\ webinars = [i \in Instances |-> [r \in Rooms |->
                   IF i = SfuInst /\ r = SfuRoom THEN [has |-> TRUE, m |-> {1}] ELSE NoRoom]]
  /\ subs = [i \in Instances |-> [r \in Rooms |->
               IF i = SfuInst /\ r = SfuRoom THEN 1 ELSE NoSub]]
  /\ pubsubs = <<NewSubscription(SfuInst, SfuRoom)>>
  /\ send = [c \in Clients |-> IF c = 1 THEN <<"webrtc_publisher_answer">> ELSE <<>>]
  /\ sent = <<>>
  /\ enq = [c \in Clients |-> [m \in MsgIds |-> 0]]
  /\ openFailed = [i \in Instances |-> [r \in Rooms |-> FALSE]]
  /\ InitQueue /\ InitStream /\ InitRec /\ InitWs /\ InitBus /\ InitLocks /\ InitRows
  /\ InitOffers /\ InitHook /\ InitEnv /\ InitPump /\ InitCast /\ InitRelayMu /\ InitThreads /\ InitUdp
  /\ roomExists = TRUE
  /\ publisher = 1
  /\ tracks = <<1>>
  /\ subscribers = [c \in Clients |-> NoPC]
  /\ recordingSink = NoSession
  /\ pcs = <<[NewPublisherPC(1, TRUE) EXCEPT !.answered = TRUE, !.ntracks = 1]>>
  /\ relays = <<[NewRelayTrack(1) EXCEPT !.st = "read"]>>
  /\ tpc = [c \in Clients |-> "idle"]
  /\ tseen = [c \in Clients |-> NoPC]
  /\ nsub = [c \in Clients |-> 0]

NextRecorder ==
  \/ \E o \in Requests : RecStartCheck(o) /\ UNCHANGED notSfu
  \/ \E o \in Requests, ok \in BOOLEAN : RecStartSpawn(o, ok) /\ UNCHANGED notSfu
  \/ \E o \in Requests : RecStartRegister(o) /\ UNCHANGED notSfu
  \/ \E o \in Requests : RecStartStore(o) /\ UNCHANGED notSfu
  \/ \E o \in Requests : RecStop(o) /\ UNCHANGED notSfu
  \/ \E o \in Requests : RecStopUnregister(o) /\ UNCHANGED notSfu
  \/ \E o \in Requests : RecStopDetach(o) /\ UNCHANGED notSfu
  \/ \E t \in 1..(MaxPCs * MaxTracks) : RelayRead(t) /\ UNCHANGED notSfu
  \/ \E t \in 1..(MaxPCs * MaxTracks) : RelaySnapshot(t) /\ UNCHANGED notSfu
  \/ \E t \in 1..(MaxPCs * MaxTracks) : RelaySink(t) /\ UNCHANGED notSfu
  \/ \E t \in 1..(MaxPCs * MaxTracks) : RelayWriteRTP(t) /\ UNCHANGED notSfu
  \/ ClosePublisher /\ UNCHANGED notSfu

SpecRecorder == InitTracks /\ [][NextRecorder]_vars

\* recorder sessions whose muxer process and UDP connections are alive
ActiveSessions == {id \in DOMAIN recSessions : recSessions[id].cmd}

\* C12: at most one recording session is active for the room at any time
C12_OneActiveRecording ==
  Cardinality(ActiveSessions) <= 1

\* ------------------------------------------------------------------ claims on cleanup
InHub(c) == c \in webinars[SfuInst][SfuRoom].m
TearingDown(st) == st \in {"cleanup", "panic_cleanup"}
Finished(st) == st \in {"exit", "crashed"}

\* C13: when a client's read loop exits, sfu.UnregisterClient runs while the Hub
\* still has the client, hub.Unregister (and the socket close) runs only after it,
\* and neither runs again once the goroutine has finished
C13_CleanupOrder ==
  [][\A c \in Clients :
       /\ (~TearingDown(tpc[c]) /\ TearingDown(tpc'[c])) =>
             (tpc[c] \in {"idle", "panic"} /\ InHub(c) /\ InHub(c)')
       /\ (InHub(c) /\ ~InHub(c)') => (TearingDown(tpc[c]) /\ Finished(tpc'[c]))
       /\ Finished(tpc[c]) =>
             (tpc'[c] = tpc[c] /\ ~InHub(c)' /\ subscribers'[c] = NoPC)]_vars

\* a client that had subscribed has gone through the whole cleanup
C13_Witness ==
  \E c \in Clients :
    /\ tpc[c] = "exit"
    /\ cstate[c] = "gone"
    /\ \E id \in DOMAIN pcs :
         pcs[id].kind = "sub" /\ pcs[id].owner = c /\ pcs[id].installed /\ ~pcs[id].open

Validate(tok) == tok.alg = "HS256" /\ tok.sigOk /\ ~tok.expired

\* the handshake that registers before it looks at the token
ServeWsNoAuth(i, wid, tok, up, ok) ==
  /\ \E c \in Clients : Register(c, i, wid, ok)
  /\ resp' = [status |-> 101, body |-> "", wid |-> wid, tok |-> tok]

\* ServeWs on instance i: the query parameters, the token, the upgrade (up),
\* then Hub.Register of a fresh client (ok: its SubscribeWebinar succeeds)
ServeWs(i, wid, tok, up, ok) ==
  IF wid = "" \/ tok = NoToken
    THEN /\ resp' = [status |-> 400, body |-> "webinar_id and token required",
                     wid |-> wid, tok |-> tok]
         /\ UNCHANGED hubVars
  ELSE IF wid \notin Rooms
    THEN /\ resp' = [status |-> 400, body |-> "invalid webinar_id", wid |-> wid, tok |-> tok]
         /\ UNCHANGED hubVars
  ELSE IF ~Validate(tok)
    THEN /\ resp' = [status |-> 401, body |-> "invalid token", wid |-> wid, tok |-> tok]
         /\ UNCHANGED hubVars
  ELSE IF ~up
    THEN /\ resp' = [status |-> 400, body |-> "upgrade failed", wid |-> wid, tok |-> tok]
         /\ UNCHANGED hubVars
  ELSE /\ \E c \in Clients : Register(c, i, wid, ok)
       /\ resp' = [status |-> 101, body |-> "", wid |-> wid, tok |-> tok]

NextWs ==
  \/ \E i \in Instances, wid \in WebinarIds, tok \in Tokens, up \in BOOLEAN, ok \in BOOLEAN :
       ServeWs(i, wid, tok, up, ok) /\ UNCHANGED notWs
  \/ \E c \in Clients : Unregister(c) /\ UNCHANGED notHub

SpecWs == Init /\ [][NextWs]_vars

\* C15: a handshake that is not upgraded leaves the Hub as it was (no client, no
\* room entry, no subscription), and a well-formed request whose token the
\* validator rejects is answered 401 {"error":"invalid token"}
C15_FailedHandshake ==
  /\ []((resp # NoResp /\ resp.wid \in Rooms /\ resp.tok # NoToken /\ ~Validate(resp.tok))
          => (resp.status = 401 /\ resp.body = "invalid token"))
  /\ [][(resp' # resp /\ resp'.status # 101) => UNCHANGED hubVars]_vars

\* an expired token with a valid signature was answered 401 while a room is open
C15_Witness ==
  /\ resp.status = 401
  /\ resp.tok = [alg |-> "HS256", sigOk |-> TRUE, expired |-> TRUE]
  /\ \E c \in Clients : cstate[c] = "registered"

\* ------------------------------------------------------------------ subscribe and publish
\* publisher offers, arriving tracks and subscribe requests on one room, from the
\* empty SFU, while the clients stay connected
NextSubscribe ==
  \/ \E c \in Clients : Connect(c) /\ UNCHANGED notSfu
  \/ \E c \in Clients, ok \in BOOLEAN : PublisherOfferBegin(c, ok) /\ UNCHANGED notSfu
  \/ \E c \in Clients : PublisherOfferClose(c) /\ UNCHANGED notSfu
  \/ \E c \in Clients, ok \in BOOLEAN : PublisherOfferInstall(c, ok) /\ UNCHANGED notSfu
  \/ \E c \in Clients : PublisherOfferAnswer(c) /\ UNCHANGED notSfu
  \/ \E id \in 1..MaxPCs : OnTrack(id) /\ UNCHANGED notSfu
  \/ \E t \in 1..(MaxPCs * MaxTracks) : OnTrackRelay(t) /\ UNCHANGED notSfu
  \/ \E c \in Clients, ok \in BOOLEAN : HandleSubscribe(c, ok) /\ UNCHANGED notSfu

SpecSubscribe == Init /\ [][NextSubscribe]_vars

\* C16: a subscribe that finds no room, no publisher or no track enqueues one
\* webrtc_error for the requesting client alone and creates no peer connection, no
\* subscriber entry and no forwarder; a subscriber entry is stored only when the room
\* has a publisher and a track, and then one webrtc_subscriber_offer goes to that client
C16_Subscribe ==
  [][\A c \in Clients :
       nsub'[c] # nsub[c] =>
         /\ \A d \in Clients \ {c} : send'[d] = send[d] /\ subscribers'[d] = subscribers[d]
         /\ IF ~roomExists \/ publisher = NoPC \/ tracks = <<>>
              THEN /\ send'[c] = TrySend(send[c], "webrtc_error")
                   /\ subscribers' = subscribers /\ pcs' = pcs /\ relays' = relays
              ELSE IF subscribers'[c] # subscribers[c]
                THEN send'[c] = TrySend(send[c], "webrtc_subscriber_offer")
                ELSE send'[c] = send[c]]_vars

\* one client was refused and another was offered the stream
C16_Witness ==
  \E c, d \in Clients :
    /\ nsub[c] = 1 /\ subscribers[c] = NoPC /\ send[c] = <<"webrtc_error">>
    /\ nsub[d] = 1 /\ subscribers[d] # NoPC /\ send[d] = <<"webrtc_subscriber_offer">>

\* a publisher offer that found a publisher installed is between releasing the room
\* lock (line 100) and clearing publisher and tracks (lines 103-104)
Replacing == \E d \in Clients : tpc[d] \in {"po_close", "po_lock"}

\* C17: once a replacing publisher offer is being processed, a subscribe never stores
\* a session nor sends an offer built from the old publisher's tracks
C17_NoOfferFromOldTracks ==
  [][\A c \in Clients :
       (nsub'[c] # nsub[c] /\ Replacing) =>
         /\ subscribers' = subscribers
         /\ send'[c] # Append(send[c], "webrtc_subscriber_offer")]_vars

\* C18: when the negotiation of a new peer connection fails (publisher offer or
\* subscribe), the connection is closed, it occupies neither the publisher slot nor
\* its owner's subscriber entry, and its owner is enqueued a webrtc_error
C18_FailedNegotiation ==
  [][(Len(pcs') = Len(pcs) + 1 /\ ~pcs'[Len(pcs')].installed) =>
       LET id == Len(pcs')
           c  == pcs'[id].owner
       IN  /\ ~pcs'[id].open
           /\ publisher' # id
           /\ subscribers'[c] # id
           /\ send'[c] = TrySend(send[c], "webrtc_error")]_vars

\* ------------------------------------------------------------------ publishOnly and the bridge
\* a Hub built with or without a Redis client
InitPublish ==
  /\ InitHub /\ InitQueue /\ InitStream /\ InitSfu /\ InitRec /\ InitWs /\ InitLocks
  /\ InitRows /\ InitOffers /\ InitHook /\ InitEnv /\ InitPump /\ InitCast /\ InitRelayMu /\ InitThreads /\ InitUdp
  /\ redis \in {"nil", "up"}

\* the connection to Redis is lost
BridgeDown ==
  /\ redis = "up"
  /\ redis' = "down"

\* the connection to Redis is back
BridgeUp ==
  /\ redis = "down"
  /\ redis' = "up"

\* Hub.Register on the instance of the bridge; without a subscriber no
\* subscription is opened (line 66)
RegisterLocal(c, ok) ==
  /\ redis = "nil" => ~ok
  /\ Register(c, SfuInst, ChatRoom, ok)

\* the envelope a client hands to PublishToWebinarOnly
Envelope(c) ==
  [from |-> c, room |-> cloc[c].room,
   regs |-> {d \in Clients : cstate[d] = "registered" /\ cloc[d].room = cloc[c].room}]

\* Hub.PublishToWebinarOnly, whole: h.redis nil, publish succeeds, publish fails
PublishOnly(c) ==
  IF redis = "up"
    THEN PublishToWebinarOnly(c)
  ELSE IF redis = "down"
    \* line 159: the error of PublishWebinarEvent is dropped, line 160 returns
    THEN /\ cstate[c] = "registered"
         /\ Len(sent) < MaxMsgs
         /\ sent' = Append(sent, Envelope(c))
         /\ UNCHANGED <<cstate, cloc, webinars, subs, pubsubs, send, enq, openFailed>>
    \* line 162: no publisher, BroadcastToWebinar
    ELSE /\ cstate[c] = "registered"
         /\ Len(sent) < MaxMsgs
         /\ sent' = Append(sent, Envelope(c))
         /\ BroadcastToWebinar(cloc[c].inst, cloc[c].room, Len(sent) + 1)
         /\ UNCHANGED <<cstate, cloc, webinars, subs, pubsubs, openFailed>>

NextPublish ==
  \/ \E c \in Clients, ok \in BOOLEAN : RegisterLocal(c, ok) /\ UNCHANGED notHub
  \/ \E c \in Clients : Unregister(c) /\ UNCHANGED notHub
  \/ \E c \in Clients : PublishOnly(c) /\ UNCHANGED notHub
  \/ \E id \in 1..MaxClients : SubSelect(id) /\ UNCHANGED notHub
  \/ \E id \in 1..MaxClients : SubHandler(id) /\ UNCHANGED notHub
  \/ \E c \in Clients : WritePump(c) /\ UNCHANGED notHub
  \/ BridgeDown /\ UNCHANGED notBus
  \/ BridgeUp /\ UNCHANGED notBus

SpecPublish == InitPublish /\ [][NextPublish]_vars

\* C19: when publishOnly is called with no publisher configured or with a publish
\* that fails, every local client of the room is enqueued the event once
C19_PublishOnlyFallback ==
  [][(Len(sent') = Len(sent) + 1 /\ redis # "up") =>
       LET m == Len(sent')
           c == sent'[m].from
       IN  \A d \in webinars[cloc[c].inst][cloc[c].room].m :
             /\ send'[d] = TrySend(send[d], m)
             /\ Len(send[d]) < QueueCap => enq'[d][m] = 1]_vars

\* ------------------------------------------------------------------ the room lock and the Hub lock
\* HandleSubscribe step by step.  Everything it reads is written under the room
\* lock, so its effect on the room is taken at the step that enqueues or fails.

\* lines 230-236: getRoom found the room; r.mu.Lock()
SubscribeLock(c) ==
  /\ Running
  /\ cstate[c] = "registered" /\ tpc[c] = "idle" /\ lpc[c] = "idle"
  /\ nsub[c] < MaxSubscribes
  /\ roomExists
  /\ publisher # NoPC /\ tracks # <<>> => Len(pcs) < MaxPCs
  /\ roomMu = NoClient
  /\ roomMu' = c
  /\ lpc' = [lpc EXCEPT ![c] = "locked"]
  /\ UNCHANGED <<hubMu, hubVars, sfuVars, recVars>>

\* lines 231-234: no room; sendToClient runs with no room lock taken
SubscribeNoRoom(c) ==
  /\ lpc[c] = "idle"
  /\ ~roomExists
  /\ HandleSubscribe(c, TRUE)
  /\ UNCHANGED lockVars

\* lines 272-279: the offer cannot be created; Close and return
SubscribeFail(c) ==
  /\ lpc[c] = "locked"
  /\ publisher # NoPC /\ tracks # <<>>
  /\ HandleSubscribe(c, FALSE)
  /\ lpc' = [lpc EXCEPT ![c] = "return"]
  /\ UNCHANGED <<roomMu, hubMu>>

\* line 239 or 282: sendToClient; Hub.SendToClient takes h.mu.RLock() (line 180)
\* and looks the client up
SubscribeSendLookup(c) ==
  /\ lpc[c] = "locked"
  /\ hubMu' = hubMu \cup {c}
  /\ lpc' = [lpc EXCEPT ![c] = "lookup"]
  /\ UNCHANGED <<roomMu, hubVars, sfuVars, recVars>>

\* h.mu.RUnlock() and the non-blocking send (lines 183-190)
SubscribeSendEnqueue(c) ==
  /\ lpc[c] = "lookup"
  /\ HandleSubscribe(c, TRUE)
  /\ hubMu' = hubMu \ {c}
  /\ lpc' = [lpc EXCEPT ![c] = "return"]
  /\ UNCHANGED roomMu

\* the deferred r.mu.Unlock() (line 237) runs at the return
SubscribeUnlock(c) ==
  /\ lpc[c] = "return"
  /\ roomMu' = NoClient
  /\ lpc' = [lpc EXCEPT ![c] = "idle"]
  /\ UNCHANGED <<hubMu, hubVars, sfuVars, recVars>>

\* Hub.Register takes h.mu.Lock(); the publisher offer, OnTrack and
\* relayTrackToSubscribers take r.mu.Lock() and release it before any send
NextLocks ==
  \/ \E c \in Clients :
       hubMu = {} /\ lpc[c] = "idle" /\ Connect(c) /\ UNCHANGED lockVars /\ UNCHANGED notSfuLocks
  \/ \E c \in Clients, ok \in BOOLEAN :
       roomMu = NoClient /\ lpc[c] = "idle" /\ PublisherOfferBegin(c, ok)
       /\ UNCHANGED lockVars /\ UNCHANGED notSfuLocks
  \/ \E c \in Clients : PublisherOfferClose(c) /\ UNCHANGED lockVars /\ UNCHANGED notSfuLocks
  \/ \E c \in Clients, ok \in BOOLEAN :
       roomMu = NoClient /\ PublisherOfferInstall(c, ok)
       /\ UNCHANGED lockVars /\ UNCHANGED notSfuLocks
  \/ \E c \in Clients : PublisherOfferAnswer(c) /\ UNCHANGED lockVars /\ UNCHANGED notSfuLocks
  \/ \E id \in 1..MaxPCs :
       roomMu = NoClient /\ OnTrack(id) /\ UNCHANGED lockVars /\ UNCHANGED notSfuLocks
  \/ \E t \in 1..(MaxPCs * MaxTracks) :
       roomMu = NoClient /\ OnTrackRelay(t) /\ UNCHANGED lockVars /\ UNCHANGED notSfuLocks
  \/ \E c \in Clients : SubscribeLock(c) /\ UNCHANGED notSfuLocks
  \/ \E c \in Clients : SubscribeNoRoom(c) /\ UNCHANGED notSfuLocks
  \/ \E c \in Clients : SubscribeFail(c) /\ UNCHANGED notSfuLocks
  \/ \E c \in Clients : SubscribeSendLookup(c) /\ UNCHANGED notSfuLocks
  \/ \E c \in Clients : SubscribeSendEnqueue(c) /\ UNCHANGED notSfuLocks
  \/ \E c \in Clients : SubscribeUnlock(c) /\ UNCHANGED notSfuLocks

SpecLocks == Init /\ [][NextLocks]_vars

\* C20: no goroutine holds the Hub lock and the room lock at the same time
C20_NeverBothLocks ==
  \A c \in Clients : ~(roomMu = c /\ c \in hubMu)

\* ------------------------------------------------------------------ claims on StopRecording
\* C21: when a stop that found a session returns, the room has no sink, no session
\* is stored for the room, and the session it took is shut down
C21_StopPostcondition ==
  [][\A o \in Requests :
       (rop[o] = "stop_detach" /\ rop'[o] = "idle") =>
         /\ recordingSink' = NoSession
         /\ svcSessions' = NoSession
         /\ ~recSessions'[rsess[o]].cmd /\ ~recSessions'[rsess[o]].conns]_vars

\* ------------------------------------------------------------------ start requests and their record
\* Service.StartRecording lines 148-206 after the track check: a port that cannot be
\* bound is replaced by 5000 / 5002 (lines 159-164); a failed WriteFile, cmd.Start
\* or DialUDP returns an error
SpawnOk(env) == env.sdp /\ env.ffmpeg /\ env.dial

\* Handler.StartRecording lines 134-138: the check, then CreateFromWebinarStart
\* inserts the record with status recording
StartCreate(o) ==
  /\ RecStartCheck(o)
  /\ recRow' = IF rop'[o] = "start_tracks"
                 THEN [recRow EXCEPT ![o] = [NoRow EXCEPT !.status = "recording"]]
                 ELSE recRow

\* Handler.StartRecording lines 144-150: Service.StartRecording, and on an error
\* UpdateStatus(failed)
StartSpawn(o, env) ==
  /\ RecStartSpawn(o, SpawnOk(env))
  /\ recRow' = [recRow EXCEPT ![o] = [status |-> IF rop'[o] = "idle" THEN "failed" ELSE "recording",
                                       env |-> env, tracks |-> roomExists /\ tracks # <<>>]]

NextStart ==
  \/ \E o \in Requests : StartCreate(o) /\ UNCHANGED notSfuRows
  \/ \E o \in Requests, env \in Envs : StartSpawn(o, env) /\ UNCHANGED notSfuRows
  \/ \E o \in Requests : RecStartRegister(o) /\ UNCHANGED notSfu
  \/ \E o \in Requests : RecStartStore(o) /\ UNCHANGED notSfu
  \/ \E o \in Requests : RecStop(o) /\ UNCHANGED notSfu
  \/ \E o \in Requests : RecStopUnregister(o) /\ UNCHANGED notSfu
  \/ \E o \in Requests : RecStopDetach(o) /\ UNCHANGED notSfu
  \/ ClosePublisher /\ UNCHANGED notSfu

SpecStart == InitTracks /\ [][NextStart]_vars

\* C22: a start that found no publisher tracks, could not write the SDP, could not
\* bind a loopback port or could not start the muxer has failed, and its Recording
\* Record is failed
C22_StartFailure ==
  \A o \in Requests :
    (/\ recRow[o].status # "none"
     /\ rop[o] # "start_tracks"
     /\ ~recRow[o].tracks \/ ~recRow[o].env.sdp \/ ~recRow[o].env.bound \/ ~recRow[o].env.ffmpeg)
      => recRow[o].status = "failed"

\* ------------------------------------------------------------------ the sink and the forwarding loop
\* one recording operator, subscribers and the forwarding loop on the live room
NextSink ==
  \/ \E c \in Clients : Connect(c) /\ UNCHANGED notSfu
  \/ \E c \in Clients, ok \in BOOLEAN : HandleSubscribe(c, ok) /\ UNCHANGED notSfu
  \/ \E t \in 1..(MaxPCs * MaxTracks) : RelayRead(t) /\ UNCHANGED notSfu
  \/ \E t \in 1..(MaxPCs * MaxTracks) : RelaySnapshot(t) /\ UNCHANGED notSfu
  \/ \E t \in 1..(MaxPCs * MaxTracks) : RelayWrite(t) /\ UNCHANGED notSfu
  \/ \E t \in 1..(MaxPCs * MaxTracks) : RelaySink(t) /\ UNCHANGED notSfu
  \/ \E t \in 1..(MaxPCs * MaxTracks) : RelayWriteRTP(t) /\ UNCHANGED notSfu
  \/ \E o \in {Operator} : RecStartCheck(o) /\ UNCHANGED notSfu
  \/ \E o \in {Operator}, ok \in BOOLEAN : RecStartSpawn(o, ok) /\ UNCHANGED notSfu
  \/ \E o \in {Operator} : RecStartRegister(o) /\ UNCHANGED notSfu
  \/ \E o \in {Operator} : RecStartStore(o) /\ UNCHANGED notSfu
  \/ \E o \in {Operator} : RecStop(o) /\ UNCHANGED notSfu
  \/ \E o \in {Operator} : RecStopUnregister(o) /\ UNCHANGED notSfu
  \/ \E o \in {Operator} : RecStopDetach(o) /\ UNCHANGED notSfu

SpecSink == InitTracks /\ [][NextSink]_vars

C24_OneForwarderPerSubscriber ==
  \A t \in DOMAIN relays :
    \A j, k \in DOMAIN relays[t].locals :
      j # k => relays[t].locals[j].sub # relays[t].locals[k].sub

\* ------------------------------------------------------------------ publisher offers by role
\* readPump, case "webrtc_publisher_offer": the offer is handed to HandlePublisherOffer
PublisherOffer(c, ok) ==
  /\ noffer[c] < MaxOffers
  /\ noffer' = [noffer EXCEPT ![c] = @ + 1]
  /\ PublisherOfferBegin(c, ok)

NextOffer ==
  \/ \E c \in Clients : Connect(c) /\ UNCHANGED notSfu
  \/ \E c \in Clients, ok \in BOOLEAN : PublisherOffer(c, ok) /\ UNCHANGED notSfuOffers
  \/ \E c \in Clients : PublisherOfferClose(c) /\ UNCHANGED notSfu
  \/ \E c \in Clients, ok \in BOOLEAN : PublisherOfferInstall(c, ok) /\ UNCHANGED notSfu
  \/ \E c \in Clients : PublisherOfferAnswer(c) /\ UNCHANGED notSfu
  \/ \E id \in 1..MaxPCs : OnTrack(id) /\ UNCHANGED notSfu
  \/ \E c \in Clients, ok \in BOOLEAN : HandleSubscribe(c, ok) /\ UNCHANGED notSfu

SpecOffer == Init /\ [][NextOffer]_vars

\* C25: a publisher offer from a client that is neither speaker nor admin changes
\* nothing: no room, no publisher, track, subscriber or sink, and no send queue
C25_RejectedOffer ==
  [][\A c \in Clients :
       (noffer'[c] # noffer[c] /\ Role(c) \notin {"speaker", "admin"}) =>
         UNCHANGED <<sfuVars, hubVars, recVars>>]_vars

\* an audience member has sent an offer and there is still no room
C25_Witness ==
  \E c \in Clients :
    /\ Role(c) \notin {"speaker", "admin"}
    /\ noffer[c] = 1
    /\ ~roomExists

\* ------------------------------------------------------------------ recording-ready webhook
\* rows GetByProviderID can return
ByProvider(p) == {id \in DOMAIN recs : recs[id].provider = p}

\* the answer of the handler, with the request fields the resolution used
HookAnswer(code, rec, job, body) ==
  [code |-> code, rec |-> rec, url |-> body.url, job |-> job,
   provider |-> body.provider, recording |-> body.recording]

\* lines 319-341 once the row is known: UpdateOriginalURL when the url differs, then
\* EnqueueRecordingUpload, then 200
HookUpdateAndEnqueue(table, id, body, fail) ==
  IF table[id].url # body.url /\ fail = "update"
    THEN /\ recs' = table
         /\ hookResp' = HookAnswer(500, id, 0, body)
         /\ UNCHANGED <<jobRec, queueVars>>
    ELSE /\ recs' = IF table[id].url # body.url
                      THEN [table EXCEPT ![id].url = body.url, ![id].status = "processing"]
                      ELSE table
         /\ IF fail = "push"
              THEN /\ hookResp' = HookAnswer(500, id, 0, body)
                   /\ UNCHANGED <<jobRec, queueVars>>
              ELSE \E j \in JobIds :
                     /\ EnqueueRecordingUpload(j)
                     /\ jobRec' = [jobRec EXCEPT ![j] = [rec |-> id, url |-> body.url]]
                     /\ hookResp' = HookAnswer(200, id, j, body)

\* WebhookHandler.RecordingReady
RecordingReady(body, fail) ==
  /\ \E j \in JobIds : ~jenq[j]
  /\ IF body.url = "" \/ body.recording = -1 \/ body.webinar = "not-a-uuid"
       THEN /\ hookResp' = HookAnswer(400, 0, 0, body)
            /\ UNCHANGED <<recs, jobRec, queueVars>>
     ELSE IF body.provider # "" /\ ByProvider(body.provider) # {}
       THEN \E id \in ByProvider(body.provider) : HookUpdateAndEnqueue(recs, id, body, fail)
     ELSE IF body.recording # 0 /\ body.recording \in DOMAIN recs
       THEN HookUpdateAndEnqueue(recs, body.recording, body, fail)
     ELSE IF body.webinar # ""
       THEN IF fail = "create"
              THEN /\ hookResp' = HookAnswer(500, 0, 0, body)
                   /\ UNCHANGED <<recs, jobRec, queueVars>>
              ELSE /\ Len(recs) < MaxRows
                   /\ HookUpdateAndEnqueue(
                        Append(recs, [webinar |-> body.webinar, provider |-> body.provider,
                                      url |-> body.url, status |-> "processing"]),
                        Len(recs) + 1, body, fail)
     ELSE /\ hookResp' = HookAnswer(400, 0, 0, body)
          /\ UNCHANGED <<recs, jobRec, queueVars>>

\* RecordingProcessor.Process for a dequeued job: a completed row is left alone,
\* otherwise download, upload and UpdateS3Result (status completed); Retry on error
HookProcess(w, ok) ==
  /\ Process(w, ok)
  /\ recs' = IF ok THEN [recs EXCEPT ![jobRec[wjob[w].id].rec].status = "completed"] ELSE recs
  /\ UNCHANGED <<jobRec, hookResp>>

NextHook ==
  \/ \E body \in Bodies, fail \in Failures : RecordingReady(body, fail) /\ UNCHANGED notHook
  \/ \E w \in Workers : Dequeue(w) /\ UNCHANGED notQueue
  \/ \E w \in Workers, ok \in BOOLEAN : HookProcess(w, ok) /\ UNCHANGED notHook

SpecHook == Init /\ [][NextHook]_vars

\* C26: a webhook answered 200 resolved its row by provider_recording_id first, else
\* by recording_id, else created it; the row then has original_url = file_url and
\* status processing and one upload job for it was appended to worker:recordings; a
\* webhook answered with an error appended no job
C26_RecordingReady ==
  [][hookResp' # hookResp =>
       IF hookResp'.code = 200
         THEN LET r == hookResp'.rec
                  j == hookResp'.job
              IN  /\ r \in DOMAIN recs'
                  /\ ByProvider(hookResp'.provider) # {} /\ hookResp'.provider # ""
                       => r \in ByProvider(hookResp'.provider)
                  /\ (ByProvider(hookResp'.provider) = {} \/ hookResp'.provider = "")
                       /\ hookResp'.recording \in DOMAIN recs => r = hookResp'.recording
                  /\ recs'[r].url = hookResp'.url
                  /\ recs'[r].status = "processing"
                  /\ recordingsQ' = Append(recordingsQ, [id |-> j, attempt |-> 0])
                  /\ jobRec'[j] = [rec |-> r, url |-> hookResp'.url]
         ELSE recordingsQ' = recordingsQ]_vars

\* ------------------------------------------------------------------ one subscription and its channel
MaxWire == 3         \* bodies published on the channel per behaviour

\* the event names PublishWebinarEvent is called with
Events == {"chat_message", "join"}

\* json.Marshal(redisPayload{Event: event, Data: payload, At: now})
Marshal(event) ==
  CASE event = "chat_message" -> "{\"event\":\"chat_message\",\"data\":{},\"at\":1}"
    [] event = "join"         -> "{\"event\":\"join\",\"data\":{},\"at\":1}"

\* bodies a writer other than PublishWebinarEvent can put on the channel
ForeignBodies == {"oops", "{\"event\":7}"}

\* json.Unmarshal([]byte(msg.Payload), &p): text that is not JSON and a number
\* where the string field event is expected are errors
Unmarshal(body) ==
  CASE body = "{\"event\":\"chat_message\",\"data\":{},\"at\":1}" ->
         [err |-> FALSE, event |-> "chat_message"]
    [] body = "{\"event\":\"join\",\"data\":{},\"at\":1}" ->
         [err |-> FALSE, event |-> "join"]
    [] OTHER -> [err |-> TRUE, event |-> ""]

\* r.client.Publish(ctx, channel, body): Redis hands the body to every open
\* subscription of the channel, in publish order
RedisPublish(body) ==
  /\ Len(wire) < MaxWire
  /\ wire' = Append(wire, body)
  /\ msgCh' = IF loopPc # "closed" THEN Append(msgCh, Len(wire) + 1) ELSE msgCh
  /\ UNCHANGED <<loopPc, loopCur, ctxDone, calls>>

\* RedisPubSub.PublishWebinarEvent
PublishWebinarEvent(event) == RedisPublish(Marshal(event))

\* another writer of the same Redis channel
ForeignPublish(body) == RedisPublish(body)

\* cancel(): cancelCtx()
CancelSubscription ==
  /\ ~ctxDone
  /\ ctxDone' = TRUE
  /\ UNCHANGED <<wire, msgCh, loopPc, loopCur, calls>>

\* case <-ctx.Done(): return, and the deferred pubsub.Close()
LoopDone ==
  /\ loopPc = "select"
  /\ ctxDone
  /\ loopPc' = "closed"
  /\ msgCh' = <<>>
  /\ UNCHANGED <<wire, loopCur, ctxDone, calls>>

\* mutant of LoopReceive: a body that does not decode ends the goroutine
LoopReceiveStops ==
  /\ loopPc = "select"
  /\ msgCh # <<>>
  /\ LET k == Head(msgCh)
     IN  IF Unmarshal(wire[k]).err
           THEN /\ loopPc' = "closed"
                /\ msgCh' = <<>>
                /\ UNCHANGED loopCur
           ELSE /\ loopPc' = "handler"
                /\ loopCur' = k
                /\ msgCh' = Tail(msgCh)
  /\ UNCHANGED <<wire, ctxDone, calls>>

\* case msg, ok := <-ch: decode; on an error continue with the next select
LoopReceive ==
  /\ loopPc = "select"
  /\ msgCh # <<>>
  /\ LET k == Head(msgCh)
     IN  IF Unmarshal(wire[k]).err
           THEN UNCHANGED <<loopPc, loopCur>>
           ELSE /\ loopPc' = "handler"
                /\ loopCur' = k
  /\ msgCh' = Tail(msgCh)
  /\ UNCHANGED <<wire, ctxDone, calls>>

\* handler(p.Event, p.Data), then back to the select
LoopHandler ==
  /\ loopPc = "handler"
  /\ calls' = Append(calls, [k |-> loopCur, event |-> Unmarshal(wire[loopCur]).event])
  /\ loopPc' = "select"
  /\ loopCur' = 0
  /\ UNCHANGED <<wire, msgCh, ctxDone>>

NextEnv ==
  \/ \E e \in Events : PublishWebinarEvent(e) /\ UNCHANGED notEnv
  \/ \E b \in ForeignBodies : ForeignPublish(b) /\ UNCHANGED notEnv
  \/ CancelSubscription /\ UNCHANGED notEnv
  \/ LoopDone /\ UNCHANGED notEnv
  \/ LoopReceive /\ UNCHANGED notEnv
  \/ LoopHandler /\ UNCHANGED notEnv

\* the goroutine is scheduled whenever it can take a step: a receive or a return
\* that stays possible and a handler call that has been reached are eventually taken
SpecEnv ==
  /\ Init /\ [][NextEnv]_vars
  /\ WF_vars(LoopReceive /\ UNCHANGED notEnv)
  /\ WF_vars(LoopHandler /\ UNCHANGED notEnv)
  /\ WF_vars(LoopDone /\ UNCHANGED notEnv)

\* a body that PublishWebinarEvent can have written
WellFormed(body) == \E e \in Events : body = Marshal(e)

Called(k) == \E n \in DOMAIN calls : calls[n].k = k

C28_CancelStopsDelivery ==
  /\ [][(ctxDone /\ loopPc # "handler") => loopPc' # "handler"]_vars
  /\ ctxDone ~> (loopPc = "closed")

\* the part of C28 the loop keeps: after cancel it eventually returns and closes
C28_LoopTerminates == ctxDone ~> (loopPc = "closed")

\* ------------------------------------------------------------------ the write loop and the cleanup
\* writePump returns: WriteJSON or the ping failed, or the 10 s write deadline
\* expired; the deferred function stops the ticker and closes the socket
WritePumpExit(c) ==
  /\ Running
  /\ cstate[c] = "registered"
  /\ wpump[c] = "run"
  /\ wpump' = [wpump EXCEPT ![c] = "exit"]
  /\ UNCHANGED <<hubVars, sfuVars, recVars>>

\* ReadJSON on the socket the write loop has closed returns an error: readPump
\* breaks and its deferred function starts
ReadClosed(c) ==
  /\ wpump[c] = "exit"
  /\ CleanupSfu(c)

\* the client with role admin: the one that sends publisher offers here, so that a
\* write loop can exit while its read loop is inside a handler
Admin == 2

NextPump ==
  \/ \E c \in Clients : Connect(c) /\ UNCHANGED notSfu
  \/ \E c \in {Admin}, ok \in BOOLEAN : PublisherOfferBegin(c, ok) /\ UNCHANGED notSfu
  \/ \E c \in {Admin} : PublisherOfferClose(c) /\ UNCHANGED notSfu
  \/ \E c \in {Admin}, ok \in BOOLEAN : PublisherOfferInstall(c, ok) /\ UNCHANGED notSfu
  \/ \E c \in {Admin} : PublisherOfferAnswer(c) /\ UNCHANGED notSfu
  \/ \E c \in Clients, ok \in BOOLEAN : HandleSubscribe(c, ok) /\ UNCHANGED notSfu
  \/ \E c \in Clients : HandleSubscriberAnswer(c) /\ UNCHANGED notSfu
  \/ \E c \in Clients : WritePumpExit(c) /\ UNCHANGED notSfuPump
  \/ \E c \in Clients : CleanupSfu(c) /\ UNCHANGED notSfu
  \/ \E c \in Clients : CleanupHub(c) /\ UNCHANGED notSfu

\* every goroutine that can take a step is scheduled: a read loop inside a handler
\* goes on, a read on a closed socket returns, a deferred function runs to its end
SpecPump ==
  /\ InitTracks /\ [][NextPump]_vars
  /\ \A c \in Clients :
       /\ WF_vars(PublisherOfferClose(c) /\ UNCHANGED notSfu)
       /\ WF_vars((\E ok \in BOOLEAN : PublisherOfferInstall(c, ok)) /\ UNCHANGED notSfu)
       /\ WF_vars(PublisherOfferAnswer(c) /\ UNCHANGED notSfu)
       /\ WF_vars(ReadClosed(c) /\ UNCHANGED notSfu)
       /\ WF_vars(CleanupHub(c) /\ UNCHANGED notSfu)

\* the subscriber sessions client c has had in the room
SessionsOf(c) ==
  {p \in DOMAIN pcs : pcs[p].kind = "sub" /\ pcs[p].owner = c /\ pcs[p].installed}

\* client c has left the Hub, the room's subscriber map has no entry for it and the
\* session the map held last (the latest one installed for c) is closed
CleanedUp(c) ==
  /\ cstate[c] = "gone"
  /\ ~InHub(c)
  /\ subscribers[c] = NoPC
  /\ \A p \in SessionsOf(c) : (\A q \in SessionsOf(c) : q <= p) => ~pcs[p].open

\* C29: if a client's write loop exits because a write fails or its write deadline
\* expires, then eventually the client is unregistered from the Hub and its SFU
\* subscriber session is removed and closed: its read loop ends, and a read loop
\* that has ended has left the Hub with no session of the client open in the SFU
C29_WriteExitCleansUp ==
  /\ [](\A c \in Clients : Finished(tpc[c]) => CleanedUp(c))
  /\ \A c \in Clients : (wpump[c] = "exit") ~> (Finished(tpc[c]) /\ CleanedUp(c))

\* a client with a subscriber session whose write loop exited has been cleaned up
C29_Witness ==
  \E c \in Clients :
    /\ wpump[c] = "exit"
    /\ SessionsOf(c) # {}
    /\ CleanedUp(c)

\* ------------------------------------------------------------------ BroadcastToWebinar, client by client
MaxCasts == 3        \* calls of BroadcastToWebinar per behaviour
MaxCastClients == 2  \* connections to the room while broadcasts are followed step by step

\* the runtime has not ended the process
Alive == \A b \in Broadcasters : bcast[b].pc # "fatal"

\* the inner map the call holds, as it is now: the room's map while the room entry
\* it was read from is still there, and the emptied map of a deleted entry afterwards
LiveMap(b) ==
  IF subs[SfuInst][SfuRoom] = bcast[b].room THEN webinars[SfuInst][SfuRoom].m ELSE {}

CastRegister(c) == Alive /\ Register(c, SfuInst, SfuRoom, TRUE)

CastUnregister(c) == Alive /\ Unregister(c)

\* lines 121-127: clients := h.webinars[webinarID] under RLock; return if nil
BroadcastSnapshot(b) ==
  /\ Alive
  /\ bcast[b].pc = "idle"
  /\ ncast < MaxCasts
  /\ ncast' = ncast + 1
  /\ bcast' = [bcast EXCEPT ![b] =
                 IF webinars[SfuInst][SfuRoom].has
                   THEN [pc |-> "iter", msg |-> ncast + 1, room |-> subs[SfuInst][SfuRoom],
                         start |-> webinars[SfuInst][SfuRoom].m, seen |-> {}]
                   ELSE NoCast]
  /\ UNCHANGED <<hubVars, acc, out>>

\* lines 128-134: the range over the map, with the lock released, reaches client c:
\* select { case c.send <- msg: default: }
BroadcastSend(b, c) ==
  /\ Alive
  /\ bcast[b].pc = "iter"
  /\ c \in LiveMap(b) \ bcast[b].seen
  /\ send' = [send EXCEPT ![c] = TrySend(@, bcast[b].msg)]
  /\ acc' = [acc EXCEPT ![c] = IF Len(send[c]) < QueueCap THEN Append(@, bcast[b].msg) ELSE @]
  /\ bcast' = [bcast EXCEPT ![b].seen = @ \cup {c}]
  /\ UNCHANGED <<cstate, cloc, webinars, subs, pubsubs, sent, enq, openFailed, ncast, out>>

\* the range is over: every entry that was in the map all along has been produced;
\* one inserted while the range ran may have been skipped
BroadcastReturn(b) ==
  /\ Alive
  /\ bcast[b].pc = "iter"
  /\ (LiveMap(b) \ bcast[b].seen) \cap bcast[b].start = {}
  /\ bcast' = [bcast EXCEPT ![b] = NoCast]
  /\ UNCHANGED <<hubVars, ncast, acc, out>>

\* Register or Unregister wrote the map while the range was reading it: the runtime
\* can stop the process with "concurrent map iteration and map write"
BroadcastFatal(b) ==
  /\ Alive
  /\ bcast[b].pc = "iter"
  /\ LiveMap(b) # bcast[b].start
  /\ bcast' = [bcast EXCEPT ![b].pc = "fatal"]
  /\ UNCHANGED <<hubVars, ncast, acc, out>>

\* writePump takes the next message from c.send
CastWritePump(c) ==
  /\ Alive
  /\ WritePump(c)
  /\ out' = [out EXCEPT ![c] = Append(@, Head(send[c]))]
  /\ UNCHANGED <<bcast, ncast, acc>>

NextCast ==
  \/ \E c \in 1..MaxCastClients : CastRegister(c) /\ UNCHANGED notHub
  \/ \E c \in Clients : CastUnregister(c) /\ UNCHANGED notHub
  \/ \E b \in Broadcasters : BroadcastSnapshot(b) /\ UNCHANGED notHubCast
  \/ \E b \in Broadcasters, c \in Clients : BroadcastSend(b, c) /\ UNCHANGED notHubCast
  \/ \E b \in Broadcasters : BroadcastReturn(b) /\ UNCHANGED notHubCast
  \/ \E b \in Broadcasters : BroadcastFatal(b) /\ UNCHANGED notHubCast
  \/ \E c \in Clients : CastWritePump(c) /\ UNCHANGED notHubCast

SpecCast == Init /\ [][NextCast]_vars

\* C30: broadcastLocal never blocks; at each client of the room the message is
\* enqueued iff the client's outbound queue holds fewer than its capacity, otherwise
\* it is dropped for that client only: no other queue changes, the call goes on and
\* returns only once every client that stayed in the room has been reached; no queue
\* exceeds its capacity and accepted messages leave the queue in the order accepted
C30_NonBlockingBroadcast ==
  /\ [](/\ \A c \in Clients : Len(send[c]) <= QueueCap
        /\ \A c \in Clients : cstate[c] = "registered" => out[c] \o send[c] = acc[c]
        /\ \A b \in Broadcasters :
             (Alive /\ bcast[b].pc = "iter") =>
                \/ ENABLED BroadcastReturn(b)
                \/ \E c \in Clients : ENABLED BroadcastSend(b, c))
  /\ [][\A b \in Broadcasters :
          /\ \A c \in Clients :
               (c \notin bcast[b].seen /\ c \in bcast'[b].seen) =>
                  /\ send'[c] = IF Len(send[c]) < QueueCap
                                  THEN Append(send[c], bcast[b].msg) ELSE send[c]
                  /\ \A d \in Clients \ {c} : send'[d] = send[d]
                  /\ bcast'[b].pc = "iter"
          /\ (bcast[b].pc = "iter" /\ bcast'[b].pc = "idle") =>
                \A c \in bcast[b].start : c \in LiveMap(b) => c \in bcast[b].seen]_vars

\* a call has found one client's queue full and dropped the message there, and has
\* enqueued the same message for another client of the room
C30_Witness ==
  \E b \in Broadcasters, c, d \in Clients :
    /\ bcast[b].pc = "iter"
    /\ {c, d} \subseteq bcast[b].seen
    /\ Len(send[c]) = QueueCap
    /\ \A k \in DOMAIN acc[c] : acc[c][k] # bcast[b].msg
    /\ \E k \in DOMAIN acc[d] : acc[d][k] = bcast[b].msg

\* C31: every read and write of the Hub's room -> clients mapping happens with the
\* Hub lock held in the matching mode: while a call of BroadcastToWebinar ranges
\* over a room's client set, no Register or Unregister inserts into or deletes
\* from that same set
C31_RangeUnderLock ==
  [][\A b \in Broadcasters :
       (bcast[b].pc = "iter" /\ bcast'[b].pc = "iter") => LiveMap(b)' = LiveMap(b)]_vars

\* ------------------------------------------------------------------ the relay lock
\* line 174: rt.mu.Lock()
RelayLock(t) ==
  /\ t \in DOMAIN relays
  /\ relays[t].st = "snap"
  /\ relayMu[t] = "free"
  /\ relayMu' = [relayMu EXCEPT ![t] = "loop"]
  /\ UNCHANGED <<hubVars, sfuVars, recVars>>

\* mutant of RelayCopy: the copy is made and rt.mu stays locked for the writes
RelayCopyKeepsLock(t) ==
  /\ relayMu[t] = "loop"
  /\ RelaySnapshot(t)
  /\ UNCHANGED relayMu

\* lines 175-177: copy rt.locals, rt.mu.Unlock()
RelayCopy(t) ==
  /\ relayMu[t] = "loop"
  /\ RelaySnapshot(t)
  /\ relayMu' = [relayMu EXCEPT ![t] = "free"]

\* HandleSubscribe, whose append to relay.locals (lines 266-268) waits for rt.mu
SubscribeAppend(c, ok) ==
  /\ \A t \in SeqRange(tracks) : relayMu[t] = "free"
  /\ HandleSubscribe(c, ok)
  /\ UNCHANGED relayMu

NextFwd ==
  \/ \E c \in Clients : Connect(c) /\ UNCHANGED notSfu
  \/ \E c \in Clients, ok \in BOOLEAN : SubscribeAppend(c, ok) /\ UNCHANGED notSfuRt
  \/ \E t \in 1..(MaxPCs * MaxTracks) : RelayRead(t) /\ UNCHANGED notSfu
  \/ \E t \in 1..(MaxPCs * MaxTracks) : RelayLock(t) /\ UNCHANGED notSfuRt
  \/ \E t \in 1..(MaxPCs * MaxTracks) : RelayCopy(t) /\ UNCHANGED notSfuRt
  \/ \E t \in 1..(MaxPCs * MaxTracks) : RelayWrite(t) /\ UNCHANGED notSfu
  \/ \E t \in 1..(MaxPCs * MaxTracks) : RelaySink(t) /\ UNCHANGED notSfu
  \/ \E t \in 1..(MaxPCs * MaxTracks) : RelayWriteRTP(t) /\ UNCHANGED notSfu
  \/ \E o \in {Operator} : RecStartCheck(o) /\ UNCHANGED notSfu
  \/ \E o \in {Operator}, ok \in BOOLEAN : RecStartSpawn(o, ok) /\ UNCHANGED notSfu
  \/ \E o \in {Operator} : RecStartRegister(o) /\ UNCHANGED notSfu
  \/ \E o \in {Operator} : RecStartStore(o) /\ UNCHANGED notSfu
  \/ \E o \in {Operator} : RecStop(o) /\ UNCHANGED notSfu
  \/ \E o \in {Operator} : RecStopUnregister(o) /\ UNCHANGED notSfu
  \/ \E o \in {Operator} : RecStopDetach(o) /\ UNCHANGED notSfu

SpecFwd == InitTracks /\ [][NextFwd]_vars

\* C32: the forwarding loop holds the RelayTrack lock only while it copies the
\* list of local forwarders; every write of a packet to a forwarder and every
\* write to the recording sink happens with the lock released, so a subscribe
\* that adds a forwarder is not held up by a forwarder write in progress
C32_LockOnlyForCopy ==
  \A t \in DOMAIN relays :
    /\ relayMu[t] = "loop" => relays[t].st = "snap"
    /\ relays[t].st \in {"write", "sink", "rtp"} =>
         /\ relayMu[t] = "free"
         /\ \A c \in Clients, ok \in BOOLEAN :
              ENABLED HandleSubscribe(c, ok) => ENABLED SubscribeAppend(c, ok)

\* a forwarder was appended while the loop was writing the packet to its snapshot,
\* and the loop has gone on to write to the recording sink
C32_Witness ==
  \E t \in DOMAIN relays :
    /\ relays[t].st = "rtp"
    /\ \E k \in DOMAIN relays[t].locals :
         /\ relays[t].locals[k].got = <<>>
         /\ \E j \in DOMAIN relays[t].locals : relays[t].nread \in SeqRange(relays[t].locals[j].got)

\* ------------------------------------------------------------------ the order of lock acquisition
\* the mutexes: Hub.mu, SFU.mu, sfuRoom.mu, relayTrack.mu, Service.mu, Session.mu
Locks == {"hub", "sfu", "room", "relay", "svc", "session"}

Operations ==
  {"register", "broadcast", "publisherOffer", "onTrack", "subscribe",
   "unregisterClient", "forward", "start", "stop"}

\* mutant of Program: the forwarding loop keeps rt.mu while it reads the room's sink
ProgramRelayHeld(p) ==
  CASE p = "register"         -> << <<"L", "hub">>, <<"U", "hub">> >>
    [] p = "broadcast"        -> << <<"RRU", "hub">> >>
    [] p = "publisherOffer"   -> << <<"LU", "sfu">>, <<"LU", "room">>, <<"L", "room">>, <<"U", "room">>,
                                    <<"RRU", "hub">> >>
    [] p = "onTrack"          -> << <<"LU", "room">>, <<"L", "room">>, <<"L", "relay">>,
                                    <<"U", "relay">>, <<"U", "room">> >>
    [] p = "subscribe"        -> << <<"RRU", "sfu">>, <<"L", "room">>, <<"L", "relay">>,
                                    <<"U", "relay">>, <<"RRU", "hub">>, <<"U", "room">> >>
    [] p = "unregisterClient" -> << <<"RRU", "sfu">>, <<"L", "room">>, <<"U", "room">> >>
    [] p = "forward"          -> << <<"L", "relay">>, <<"RRU", "room">>, <<"U", "relay">>,
                                    <<"L", "session">>, <<"U", "session">> >>
    [] p = "start"            -> << <<"RRU", "sfu">>, <<"RRU", "room">>, <<"RRU", "sfu">>,
                                    <<"LU", "room">>, <<"LU", "svc">> >>
    [] p = "stop"             -> << <<"LU", "svc">>, <<"RRU", "sfu">>, <<"LU", "room">>,
                                    <<"L", "session">>, <<"U", "session">> >>

\* the mutex calls of each operation, in program order.  "L"/"U" and "R"/"RU" are
\* Lock/Unlock and RLock/RUnlock; "LU" and "RRU" are a critical section that calls
\* nothing that can wait (a map read or write), taken as one step
\*   register           Hub.Register, Hub.Unregister: SubscribeWebinar or cancel under h.mu
\*   broadcast          Hub.BroadcastToWebinar, Hub.SendToClient, Hub.AudienceCount
\*   publisherOffer     getOrCreateRoom, HandlePublisherOffer replacing a publisher,
\*                      then sendToClient with the room lock released
\*   onTrack            the OnTrack callback and relayTrackToSubscribers
\*   subscribe          getRoom, HandleSubscribe: relay.mu and Hub.SendToClient under
\*                      the room lock, which the deferred Unlock releases last
\*   unregisterClient   SFU.UnregisterClient: the peer connection is closed under r.mu
\*   forward            one turn of readAndForward with a sink registered
\*   start              GetTrackInfo, RegisterRecordingSink, the store in svc.sessions
\*   stop               StopRecording: the map, UnregisterRecordingSink, the session
Program(p) ==
  CASE p = "register"         -> << <<"L", "hub">>, <<"U", "hub">> >>
    [] p = "broadcast"        -> << <<"RRU", "hub">> >>
    [] p = "publisherOffer"   -> << <<"LU", "sfu">>, <<"LU", "room">>, <<"L", "room">>, <<"U", "room">>,
                                    <<"RRU", "hub">> >>
    [] p = "onTrack"          -> << <<"LU", "room">>, <<"L", "room">>, <<"L", "relay">>,
                                    <<"U", "relay">>, <<"U", "room">> >>
    [] p = "subscribe"        -> << <<"RRU", "sfu">>, <<"L", "room">>, <<"L", "relay">>,
                                    <<"U", "relay">>, <<"RRU", "hub">>, <<"U", "room">> >>
    [] p = "unregisterClient" -> << <<"RRU", "sfu">>, <<"L", "room">>, <<"U", "room">> >>
    [] p = "forward"          -> << <<"L", "relay">>, <<"U", "relay">>, <<"RRU", "room">>,
                                    <<"L", "session">>, <<"U", "session">> >>
    [] p = "start"            -> << <<"RRU", "sfu">>, <<"RRU", "room">>, <<"RRU", "sfu">>,
                                    <<"LU", "room">>, <<"LU", "svc">> >>
    [] p = "stop"             -> << <<"LU", "svc">>, <<"RRU", "sfu">>, <<"LU", "room">>,
                                    <<"L", "session">>, <<"U", "session">> >>

Prog(th) == IF thProg[th] = "none" THEN <<>> ELSE Program(thProg[th])

ThreadDone(th) == thProg[th] # "none" /\ thPc[th] > Len(Prog(th))

\* goroutine th holds lock l in mode acq ("L" or "R"): it has acquired it and not
\* yet called the matching unlock
Holds(th, l, acq, rel) ==
  \E i \in 1..(thPc[th] - 1) :
    /\ Prog(th)[i] = <<acq, l>>
    /\ \A j \in (i + 1)..(thPc[th] - 1) : Prog(th)[j] # <<rel, l>>

HoldsAny(th, l) == Holds(th, l, "L", "U") \/ Holds(th, l, "R", "RU")

\* goroutine th is inside a Lock call on l
AtLock(th, l) ==
  /\ thProg[th] # "none" /\ thPc[th] <= Len(Prog(th))
  /\ Prog(th)[thPc[th]] \in {<<"L", l>>, <<"LU", l>>}

\* a goroutine starts an operation
ThreadSpawn(th, p) ==
  /\ thProg[th] = "none"
  /\ thProg' = [thProg EXCEPT ![th] = p]
  /\ UNCHANGED thPc

\* the next call of th returns.  sync.Mutex and the write side of sync.RWMutex wait
\* for every holder; RLock waits for a writer that holds the lock or is waiting for it
ThreadStep(th) ==
  /\ thProg[th] # "none"
  /\ thPc[th] <= Len(Prog(th))
  /\ LET op == Prog(th)[thPc[th]][1]
         l  == Prog(th)[thPc[th]][2]
     IN  CASE op \in {"L", "LU"}  -> \A o \in Threads \ {th} : ~HoldsAny(o, l)
           [] op \in {"R", "RRU"} ->
                \A o \in Threads \ {th} : ~Holds(o, l, "L", "U") /\ ~AtLock(o, l)
           [] OTHER -> TRUE
  /\ thPc' = [thPc EXCEPT ![th] = @ + 1]
  /\ UNCHANGED thProg

NextOrder ==
  \/ \E th \in Threads, p \in Operations : ThreadSpawn(th, p) /\ UNCHANGED notThreads
  \/ \E th \in Threads : ThreadStep(th) /\ UNCHANGED notThreads

\* the mutexes hand the lock to every waiter in turn (sync.Mutex starvation mode,
\* sync.RWMutex writer preference): a call that can return again and again does
SpecOrder ==
  /\ Init /\ [][NextOrder]_vars
  /\ \A th \in Threads : SF_vars(ThreadStep(th) /\ UNCHANGED notThreads)

\* a total order compatible with every nested acquisition of the code
Rank(l) == CASE l = "room" -> 1 [] l = "relay" -> 2 [] l = "hub" -> 2 [] OTHER -> 3

\* C33: no deadlock is reachable among the Hub lock, the SFU map lock, the room
\* lock, the RelayTrack lock, the recorder service lock and the session lock: a
\* goroutine acquires a lock only while holding locks of lower rank, some goroutine
\* inside an operation can always take its next step, and every goroutine waiting
\* for a lock eventually obtains it and finishes its operation
C33_NoDeadlock ==
  /\ [](/\ \A th \in Threads, l \in Locks :
             (thProg[th] # "none" /\ thPc[th] <= Len(Prog(th))
                /\ Prog(th)[thPc[th]][1] \in {"L", "R", "LU", "RRU"} /\ HoldsAny(th, l))
               => Rank(l) < Rank(Prog(th)[thPc[th]][2])
        /\ (\E th \in Threads : thProg[th] # "none" /\ ~ThreadDone(th))
             => \E th \in Threads : ENABLED ThreadStep(th))
  /\ <>[](\A th \in Threads : thProg[th] = "none" \/ ThreadDone(th))

\* a subscribe holds the room lock and waits for the relay lock that a forwarding
\* loop holds, while a third goroutine waits for the room lock
C33_Witness ==
  \E a, b, c \in Threads :
    /\ thProg[a] = "subscribe" /\ Holds(a, "room", "L", "U") /\ AtLock(a, "relay")
    /\ thProg[b] = "forward" /\ Holds(b, "relay", "L", "U")
    /\ thProg[c] = "stop" /\ AtLock(c, "room")

\* ------------------------------------------------------------------ broadcastAndPublish
\* Hub.BroadcastToWebinarAndPublish with h.redis != nil (readPump: join,
\* ask_question, approve_question, launch_poll, answer_poll, rotate_ad): the local
\* broadcast of line 143, then the publish of line 145 on the room's channel
BroadcastToWebinarAndPublish(c) ==
  /\ cstate[c] = "registered"
  /\ redis = "up"
  /\ Len(sent) < MaxMsgs
  /\ LET r == cloc[c].room
         m == Len(sent) + 1
     IN  /\ sent' = Append(sent, [from |-> c, room |-> r, inst |-> cloc[c].inst,
                                  regs |-> {d \in Clients : cstate[d] = "registered"
                                                            /\ cloc[d].room = r}])
         /\ BroadcastToWebinar(cloc[c].inst, r, m)
         /\ pubsubs' = [id \in DOMAIN pubsubs |->
                          IF pubsubs[id].room = r /\ pubsubs[id].pc # "closed"
                            THEN Deliver(pubsubs[id], m) ELSE pubsubs[id]]
  /\ UNCHANGED <<cstate, cloc, webinars, subs, openFailed>>

\* room events of one room on one instance, which the bus sends back to it
NextEvent ==
  \/ \E c \in Clients, ok \in BOOLEAN : RegisterLocal(c, ok) /\ UNCHANGED notHub
  \/ \E c \in Clients : Unregister(c) /\ UNCHANGED notHub
  \/ \E c \in Clients : BroadcastToWebinarAndPublish(c) /\ UNCHANGED notHub
  \/ \E id \in 1..MaxClients : SubSelect(id) /\ UNCHANGED notHub
  \/ \E id \in 1..MaxClients : SubHandler(id) /\ UNCHANGED notHub
  \/ \E c \in Clients : WritePump(c) /\ UNCHANGED notHub

SpecEvent == Init /\ [][NextEvent]_vars

\* C34: with PubSub available and the instance subscribed to the room, an event
\* passed to BroadcastToWebinarAndPublish is enqueued at most once on each local
\* client's outbound queue: the copy received back from the bus by the instance's
\* own subscription is not delivered again
C34_AtMostOnceLocally ==
  \A m \in DOMAIN sent :
    \A c \in Clients :
      (cstate[c] = "registered" /\ cloc[c].inst = sent[m].inst
         /\ subs[sent[m].inst][sent[m].room] # NoSub)
        => enq[c][m] <= 1

\* ------------------------------------------------------------------ the worker loop and a failing re-push
\* Queue.Retry with the outcome of its RPUSH: on an error (Redis unreachable, or the
\* context of the worker cancelled) nothing is pushed and the error is returned
RetryPush(job, pushOk) ==
  IF pushOk THEN Retry(job) ELSE UNCHANGED <<recordingsQ, dlq>>

\* one iteration of RecordingProcessor.Run after Dequeue: Process, on an error
\* Retry, whose own error is logged and dropped (lines 110-112); the loop goes on
\* to the next job.  A context cancelled during Process is ok = FALSE with
\* pushOk = FALSE: the upload and the RPUSH both run on the cancelled context
RunIteration(w, ok, pushOk) ==
  /\ wjob[w] # NoJob
  /\ LET job == wjob[w]
     IN  /\ jprocs' = [jprocs EXCEPT ![job.id] = @ + 1]
         /\ IF ok
              THEN /\ jdone' = [jdone EXCEPT ![job.id] = TRUE]
                   /\ UNCHANGED <<recordingsQ, dlq, jfails>>
              ELSE /\ jfails' = [jfails EXCEPT ![job.id] = @ + 1]
                   /\ RetryPush(job, pushOk)
                   /\ UNCHANGED jdone
  /\ wjob' = [wjob EXCEPT ![w] = NoJob]
  /\ UNCHANGED jenq

NextRun ==
  \/ \E j \in JobIds : EnqueueRecordingUpload(j) /\ UNCHANGED notQueue
  \/ \E w \in Workers : Dequeue(w) /\ UNCHANGED notQueue
  \/ \E w \in Workers, ok \in BOOLEAN, pushOk \in BOOLEAN :
        RunIteration(w, ok, pushOk) /\ UNCHANGED notQueue

SpecRun == Init /\ [][NextRun]_vars

\* C35: job conservation: a job that was dequeued from worker:recordings is, in
\* every later state, being processed, back in worker:recordings with a higher
\* attempt, in worker:dlq, or completed; it is never lost, also when the re-push
\* fails or the worker's context is cancelled during processing
C35_JobConservation ==
  \A j \in JobIds :
    jenq[j] =>
      \/ Held(j) # {}
      \/ jprocs[j] = 0 /\ InQueue(recordingsQ, j)
      \/ \E k \in DOMAIN recordingsQ : recordingsQ[k].id = j /\ recordingsQ[k].attempt >= 1
      \/ InQueue(dlq, j)
      \/ jdone[j]

\* ------------------------------------------------------------------ the stored session and the sink
\* C36: whenever the recorder reports an active session for the room, the sink
\* registered on the room is that session's sink, under every interleaving of
\* StartRecording and StopRecording: an overlapping stop never deregisters the new
\* session's sink and no session is active with no sink or with another's sink
C36_ActiveSessionOwnsSink ==
  svcSessions # NoSession => recordingSink = svcSessions

\* ------------------------------------------------------------------ a second webrtc_subscribe
MaxAgain == 1        \* further webrtc_subscribe messages of a client that has a session

\* readPump, case "webrtc_subscribe", for a client that already has a Subscriber
\* Session: HandleSubscribe runs as for the first one
HandleSubscribeAgain(c, ok) ==
  /\ Running
  /\ cstate[c] = "registered"
  /\ tpc[c] = "idle"
  /\ subscribers[c] # NoPC
  /\ nsub[c] < MaxSubscribes + MaxAgain
  /\ nsub' = [nsub EXCEPT ![c] = @ + 1]
  /\ SubscribeSession(c, ok)

\* viewers of the live room subscribe, subscribe again and disconnect
NextResub ==
  \/ \E c \in Clients : Connect(c) /\ UNCHANGED notSfu
  \/ \E c \in Clients, ok \in BOOLEAN : HandleSubscribe(c, ok) /\ UNCHANGED notSfu
  \/ \E c \in Clients, ok \in BOOLEAN : HandleSubscribeAgain(c, ok) /\ UNCHANGED notSfu
  \/ \E c \in Clients : HandleSubscriberAnswer(c) /\ UNCHANGED notSfu
  \/ \E c \in Clients : CleanupSfu(c) /\ UNCHANGED notSfu
  \/ \E c \in Clients : CleanupHub(c) /\ UNCHANGED notSfu

SpecResub == InitTracks /\ [][NextResub]_vars

OpenSubscriberPCs(c) ==
  {id \in DOMAIN pcs : pcs[id].kind = "sub" /\ pcs[id].owner = c /\ pcs[id].open}

\* C37: at most one open subscriber peer connection exists per client of the room
\* and every open one is the client's entry of the subscriber map: a further
\* webrtc_subscribe closes the previous peer connection, and after UnregisterClient
\* no peer connection created for the client remains open
C37_OneSubscriberPC ==
  \A c \in Clients :
    /\ Cardinality(OpenSubscriberPCs(c)) <= 1
    /\ \A id \in OpenSubscriberPCs(c) : subscribers[c] = id
    /\ (TearingDown(tpc[c]) \/ Finished(tpc[c])) => OpenSubscriberPCs(c) = {}

\* ------------------------------------------------------------------ the OnTrack callback and the room lock
\* relays built by the callbacks of publisher peer connection id
RelaysOf(id) == {t \in DOMAIN relays : relays[t].pc = id}

\* pion invokes the OnTrack callback of publisher peer connection id for a remote
\* track (lines 119-126): the relay is built, the room lock not yet taken
OnTrackFire(id) ==
  /\ Running
  /\ id \in DOMAIN pcs
  /\ pcs[id].kind = "pub" /\ pcs[id].answered /\ pcs[id].open
  /\ pcs[id].ntracks < MaxTracks
  /\ pcs' = [pcs EXCEPT ![id].ntracks = @ + 1]
  /\ UNCHANGED <<roomExists, publisher, tracks, subscribers, recordingSink, relays, tpc, tseen, nsub>>
  /\ UNCHANGED <<hubVars, recVars>>

\* lines 127-130 of the callback: r.mu.Lock(); r.tracks = append(r.tracks, relay);
\* r.mu.Unlock(), whatever became of the peer connection and of r.publisher since
OnTrackAppend(id) ==
  /\ Running
  /\ id \in DOMAIN pcs
  /\ pcs[id].kind = "pub"
  /\ Cardinality(RelaysOf(id)) < pcs[id].ntracks
  /\ relays' = Append(relays, NewRelayTrack(id))
  /\ tracks' = Append(tracks, Len(relays) + 1)
  /\ UNCHANGED <<roomExists, publisher, subscribers, recordingSink, pcs, tpc, tseen, nsub>>
  /\ UNCHANGED <<hubVars, recVars>>

\* publisher offers, closePublisher and the callbacks of every publisher peer connection
NextTrack ==
  \/ \E c \in Clients : Connect(c) /\ UNCHANGED notSfu
  \/ \E c \in {Admin}, ok \in BOOLEAN : PublisherOfferBegin(c, ok) /\ UNCHANGED notSfu
  \/ \E c \in {Admin} : PublisherOfferClose(c) /\ UNCHANGED notSfu
  \/ \E c \in {Admin}, ok \in BOOLEAN : PublisherOfferInstall(c, ok) /\ UNCHANGED notSfu
  \/ \E c \in {Admin} : PublisherOfferAnswer(c) /\ UNCHANGED notSfu
  \/ \E id \in 1..MaxPCs : OnTrackFire(id) /\ UNCHANGED notSfu
  \/ \E id \in 1..MaxPCs : OnTrackAppend(id) /\ UNCHANGED notSfu
  \/ \E t \in 1..(MaxPCs * MaxTracks) : OnTrackRelay(t) /\ UNCHANGED notSfu
  \/ ClosePublisher /\ UNCHANGED notSfu

SpecTrack == Init /\ [][NextTrack]_vars

\* C38: every RelayTrack in the room's track list was produced by the room's
\* current publisher: after a replacement or ClosePublisher a callback of an
\* earlier publisher peer connection adds no track, and tracks exist only while a
\* publisher exists
C38_TracksOfCurrentPublisher ==
  /\ \A k \in DOMAIN tracks : relays[tracks[k]].pc = publisher
  /\ tracks # <<>> => publisher # NoPC

\* ------------------------------------------------------------------ WriteRTP against StopRecording
\* mutant of RecStopDetachOnly: the connections are taken for closing and the
\* fields of the session keep them
RecStopDetachKeepsConns(o) ==
  /\ Running
  /\ rop[o] = "stop_detach"
  /\ rop' = [rop EXCEPT ![o] = "stop_close"]
  /\ UNCHANGED <<svcSessions, recSessions, rsess>>
  /\ UNCHANGED <<hubVars, sfuVars, udpVars>>

\* Service.StopRecording lines 248-255: under session.mu the connections and the
\* process are copied to locals and the fields set to nil
RecStopDetachOnly(o) ==
  /\ Running
  /\ rop[o] = "stop_detach"
  /\ recSessions' = [recSessions EXCEPT ![rsess[o]].conns = FALSE, ![rsess[o]].cmd = FALSE]
  /\ rop' = [rop EXCEPT ![o] = "stop_close"]
  /\ UNCHANGED <<svcSessions, rsess>>
  /\ UNCHANGED <<hubVars, sfuVars, udpVars>>

\* Service.StopRecording lines 257-278: with session.mu released, close the two
\* connections, then stop ffmpeg
RecStopClose(o) ==
  /\ Running
  /\ rop[o] = "stop_close"
  /\ udpClosed' = udpClosed \cup {rsess[o]}
  /\ rop' = [rop EXCEPT ![o] = "idle"]
  /\ rsess' = [rsess EXCEPT ![o] = NoSession]
  /\ UNCHANGED <<svcSessions, recSessions, udpBad, udpLate>>
  /\ UNCHANGED <<hubVars, sfuVars>>

\* Sink.WriteRTP called by the forwarding loop on the sink it read: under
\* session.mu, WriteToUDP when the field still holds the connection
SinkWriteRTP(t) ==
  /\ RelayWriteRTP(t)
  /\ LET s == relays[t].sink
     IN  /\ udpBad' = IF recSessions[s].conns /\ s \in udpClosed
                        THEN udpBad \cup {s} ELSE udpBad
         /\ udpLate' = IF s \in udpClosed THEN udpLate \cup {s} ELSE udpLate
  /\ UNCHANGED udpClosed

NextUdp ==
  \/ \E o \in Requests : RecStartCheck(o) /\ UNCHANGED notSfu
  \/ \E o \in Requests, ok \in BOOLEAN : RecStartSpawn(o, ok) /\ UNCHANGED notSfu
  \/ \E o \in Requests : RecStartRegister(o) /\ UNCHANGED notSfu
  \/ \E o \in Requests : RecStartStore(o) /\ UNCHANGED notSfu
  \/ \E o \in Requests : RecStop(o) /\ UNCHANGED notSfu
  \/ \E o \in Requests : RecStopUnregister(o) /\ UNCHANGED notSfu
  \/ \E o \in Requests : RecStopDetachOnly(o) /\ UNCHANGED notSfuUdp
  \/ \E o \in Requests : RecStopClose(o) /\ UNCHANGED notSfuUdp
  \/ \E t \in 1..(MaxPCs * MaxTracks) : RelayRead(t) /\ UNCHANGED notSfu
  \/ \E t \in 1..(MaxPCs * MaxTracks) : RelaySnapshot(t) /\ UNCHANGED notSfu
  \/ \E t \in 1..(MaxPCs * MaxTracks) : RelaySink(t) /\ UNCHANGED notSfu
  \/ \E t \in 1..(MaxPCs * MaxTracks) : SinkWriteRTP(t) /\ UNCHANGED notSfuUdp

SpecUdp == InitTracks /\ [][NextUdp]_vars

\* C39: the recording sink never writes to a UDP connection that has been closed:
\* whatever the interleaving of the forwarding loop with StopRecording, a WriteRTP
\* that executes after the session's connections were detached sends nothing and
\* no write fails on a closed connection
C39_NoWriteAfterClose ==
  /\ [](udpBad = {})
  /\ [][\A t \in DOMAIN relays :
          (relays[t].st = "rtp" /\ relays'[t].st = "read"
             /\ ~recSessions[relays[t].sink].conns)
            => recSessions'[relays[t].sink].rtp = recSessions[relays[t].sink].rtp]_vars

\* the forwarding loop read the sink before it was deregistered and called WriteRTP
\* after StopRecording had closed the connections
C39_Witness ==
  /\ udpLate # {}
  /\ udpBad = {}

====
